---- MODULE Spec2Model ----
(***************************************************************************)
(* Model of rag_tutorials: chunking, the BM25 keyword index, Reciprocal    *)
(* Rank Fusion, the hybrid retriever, the cross-encoder reranker, the      *)
(* evaluation metrics, concurrent calls of the core operations, the        *)
(* StateManager checkpoints, the ReAct loop and the reflection loop.       *)
(*                                                                         *)
(* Strings of the program are sequences of one-character strings, so that  *)
(* slicing, splitting, formatting and concatenation are computed and not   *)
(* assumed.  Every function of the program is an operator that computes    *)
(* what the code computes; an action is one call of a function, with the   *)
(* arguments held in the state and the return value written to it.         *)
(* Floating-point scores are exact rationals over a common denominator     *)
(* (RRF) or fixed-point integers (BM25); float rounding is not modelled.   *)
(***************************************************************************)
EXTENDS Integers, Sequences, FiniteSets, TLC

VARIABLES
    called,           \* name of the function whose call returned last ("" before any call)
    raised,           \* exception the last call raised ("" when it returned normally)
    documents,        \* chunking: argument documents
    chunk_size,       \* chunking: argument chunk_size
    chunks,           \* chunking: the returned list of Chunk
    bm_chunks,        \* build_bm25: argument chunks
    index,            \* build_bm25: the BM25Okapi object (NoIndex before the build)
    corpus,           \* build_bm25: returned corpus texts
    chunk_ids,        \* build_bm25: returned chunk ids
    query,            \* bm25_search / rerank: argument query
    top_k,            \* bm25_search / rerank: argument top_k
    results,          \* bm25_search: returned list of RetrievalResult
    dense_results,    \* reciprocal_rank_fusion: argument dense_results
    keyword_results,  \* reciprocal_rank_fusion: argument keyword_results
    k,                \* reciprocal_rank_fusion: argument k
    fused,            \* reciprocal_rank_fusion: returned list of RetrievalResult
    candidates,       \* rerank: argument results
    predict_calls,    \* rerank: the pair lists self.model.predict was called with
    predict_scores,   \* rerank: what self.model.predict returned
    ranked,           \* rerank: returned list of RetrievalResult
    ev_results,       \* recall_at_k / reciprocal_rank: argument results; evaluate_single: retrieved
    target_doc_id,    \* evaluation: query.target_doc_id
    recall_k,         \* recall_at_k: argument k
    metric,           \* recall_at_k / reciprocal_rank / groundedness_score: returned value
    answer,           \* groundedness_score: argument answer
    contexts,         \* groundedness_score: argument contexts
    rows,             \* summarize: argument rows
    summary,          \* summarize: returned dict
    retrieval_fn,     \* evaluate_single: argument retrieval_fn (how the callable behaves)
    answer_fn,        \* evaluate_single: argument answer_fn (how the callable behaves)
    eval_top_k,       \* evaluate_single: argument top_k
    fn_calls,         \* evaluate_single: the calls made to retrieval_fn and answer_fn, in order
    row,              \* evaluate_single: returned EvalRow (NoRow when it raised)
    shared,           \* concurrent use: the objects every thread's call was given
    threads,          \* concurrent use: per thread, the call in progress and its locals
    fix_doc,          \* fixed_chunk_documents in steps: index of the document of the for loop
    fix_start,        \* fixed_chunk_documents in steps: the local start
    fix_part,         \* fixed_chunk_documents in steps: the local part
    heap,             \* StateManager: the AgentState objects, by address
    checkpoints,      \* StateManager: self._checkpoints
    held,             \* StateManager: addresses of the states the caller holds
    listed,           \* StateManager: the Checkpoints list_checkpoints returned last
    saved,            \* StateManager: per save_checkpoint call, the id returned and the state as it was
    sm_arg,           \* StateManager: argument of the last step
    sm_returned,      \* StateManager: what the last call returned
    sm_ops,           \* StateManager: number of steps taken
    max_steps,        \* run_react_loop: argument max_steps
    react_pc,         \* run_react_loop: "" before the call, "loop" inside the for loop, "done" after
    llm_calls,        \* run_react_loop: per LLM call, the messages sent, the response received
                      \*   and what the tool does when called in that pass
    react_steps,      \* run_react_loop: the local list steps
    messages,         \* run_react_loop: the local list messages
    react_result,     \* run_react_loop: returned AgentResult (NoResult before the return)
    max_rounds,       \* run_reflection_loop: argument max_rounds
    refl_pc,          \* run_reflection_loop: "" before the call, "worker", "critic", "done"
    round_num,        \* run_reflection_loop: the loop variable round_num
    refl_answer,      \* run_reflection_loop: the local answer
    refl_feedback,    \* run_reflection_loop: the local feedback
    history,          \* run_reflection_loop: the local list history
    refl_calls,       \* run_reflection_loop: the calls of worker_answer and critic_review, in order
    refl_result       \* run_reflection_loop: returned ReflectionResult (NoResult before the return)

chunkVars == <<documents, chunk_size, chunks>>
bm25Vars == <<bm_chunks, index, corpus, chunk_ids, query, top_k, results>>
rrfVars == <<dense_results, keyword_results, k, fused>>
rerankVars == <<candidates, predict_calls, predict_scores, ranked>>
evalVars == <<ev_results, target_doc_id, recall_k, metric, answer, contexts, rows, summary,
              retrieval_fn, answer_fn, eval_top_k, fn_calls, row>>
concVars == <<shared, threads>>
loopVars == <<fix_doc, fix_start, fix_part>>
coreVars == <<chunkVars, bm25Vars, rrfVars, rerankVars, evalVars, concVars, loopVars>>
stateVars == <<heap, checkpoints, held, listed, saved, sm_arg, sm_returned, sm_ops>>
reactVars == <<max_steps, react_pc, llm_calls, react_steps, messages, react_result>>
reflectVars == <<max_rounds, refl_pc, round_num, refl_answer, refl_feedback, history,
                 refl_calls, refl_result>>
agentVars == <<loopVars, stateVars, reactVars, reflectVars>>
vars == <<called, raised, chunkVars, bm25Vars, rrfVars, rerankVars, evalVars, concVars,
          agentVars>>

----------------------------------------------------------------------------
(* Bounds of the model *)

\* chunking: longest plain text, most documents per call, largest chunk_size
MaxTextLen == 5
MaxDocs == 2
MaxChunkSize == 3
\* chunking of a long document: the longest text
MaxLongTextLen == 101
\* keyword index: most chunks indexed, largest top_k
MaxChunks == 3
MaxTopK == 4
\* fusion: longest ranked list
MaxRankLen == 3
\* reranking: most candidates
MaxCandidates == 3
\* evaluation: longest result list, largest cutoff k, most contexts, most rows
MaxResults == 3
MaxCutoff == 4
MaxContexts == 2
MaxRows == 3
\* concurrent use: most worker threads
MaxThreads == 2
\* StateManager: most steps of a run, most save_checkpoint calls among them
MaxOps == 4
MaxSaves == 2
\* run_react_loop: largest max_steps
MaxSteps == 3
\* run_reflection_loop: largest max_rounds
MaxRounds == 3

----------------------------------------------------------------------------
(* Generic helpers *)

Min(a, b) == IF a < b THEN a ELSE b

Range(s) == {s[i] : i \in 1..Len(s)}

SeqsUpTo(S, n) == UNION {[1..m -> S] : m \in 0..n}

RECURSIVE Flatten(_)
Flatten(ss) == IF ss = <<>> THEN <<>> ELSE Head(ss) \o Flatten(Tail(ss))

\* Python slice s[start:stop] with 0 <= start (0-based, stop exclusive, clipped).
Slice(s, start, stop) == SubSeq(s, start + 1, Min(stop, Len(s)))

\* "".join(c.text for c in cs)
ConcatTexts(cs) == Flatten([i \in 1..Len(cs) |-> cs[i].text])

NoDuplicates(s) == \A i, j \in 1..Len(s) : s[i] = s[j] => i = j

----------------------------------------------------------------------------
(* chunking.py *)

DigitChars == <<"0", "1", "2", "3", "4", "5", "6", "7", "8", "9">>

RECURSIVE Decimal(_)
Decimal(n) ==
    IF n < 10 THEN <<DigitChars[n + 1]>>
    ELSE Decimal(n \div 10) \o <<DigitChars[(n % 10) + 1]>>

\* f"{n:02d}": decimal digits, zero-padded to at least two.
Format02d(n) == IF n < 10 THEN <<"0">> \o Decimal(n) ELSE Decimal(n)

FixTag == <<"-", "F", "I", "X", "-">>
SemTag == <<"-", "S", "E", "M", "-">>

Chunk(chunk_id, doc_id, section, text) ==
    [chunk_id |-> chunk_id, doc_id |-> doc_id, section |-> section, text |-> text]

\* The loop with a window one character too wide: text[start : start + size + 1].
RECURSIVE FixedLoopWideWindow(_, _, _, _)
FixedLoopWideWindow(document, size, start, part) ==
    IF start < Len(document.text)
    THEN <<Chunk(document.doc_id \o FixTag \o Format02d(part),
                 document.doc_id,
                 document.section,
                 Slice(document.text, start, start + size + 1))>>
         \o FixedLoopWideWindow(document, size, start + size, part + 1)
    ELSE <<>>

\* The loop with the condition start <= len(text): one more, empty, chunk
\* when the text ends at a window boundary.
RECURSIVE FixedLoopInclusiveEnd(_, _, _, _)
FixedLoopInclusiveEnd(document, size, start, part) ==
    IF start <= Len(document.text)
    THEN <<Chunk(document.doc_id \o FixTag \o Format02d(part),
                 document.doc_id,
                 document.section,
                 Slice(document.text, start, start + size))>>
         \o FixedLoopInclusiveEnd(document, size, start + size, part + 1)
    ELSE <<>>

\* The while loop of fixed_chunk_documents for one document, from (start, part).
RECURSIVE FixedLoop(_, _, _, _)
FixedLoop(document, size, start, part) ==
    IF start < Len(document.text)
    THEN <<Chunk(document.doc_id \o FixTag \o Format02d(part),
                 document.doc_id,
                 document.section,
                 Slice(document.text, start, start + size))>>
         \o FixedLoop(document, size, start + size, part + 1)
    ELSE <<>>

fixed_chunk_documents(docs, size) ==
    Flatten([d \in 1..Len(docs) |-> FixedLoop(docs[d], size, 0, 0)])

\* True when sep occurs in s at 1-based position i.
OccursAt(s, sep, i) ==
    /\ i + Len(sep) - 1 <= Len(s)
    /\ SubSeq(s, i, i + Len(sep) - 1) = sep

\* str.split(sep) with an explicit separator: every non-overlapping occurrence,
\* left to right, cuts; empty pieces are kept.  `from` is the 1-based start of
\* the current piece, `i` the scanning position.
RECURSIVE SplitFrom(_, _, _, _)
SplitFrom(s, sep, from, i) ==
    IF i > Len(s) THEN <<SubSeq(s, from, Len(s))>>
    ELSE IF OccursAt(s, sep, i)
         THEN <<SubSeq(s, from, i - 1)>> \o SplitFrom(s, sep, i + Len(sep), i + Len(sep))
         ELSE SplitFrom(s, sep, from, i + 1)

Split(s, sep) == SplitFrom(s, sep, 1, 1)

Whitespace == {" "}

\* str.strip(): leading and trailing whitespace removed.
RECURSIVE LStrip(_)
LStrip(s) == IF s # <<>> /\ Head(s) \in Whitespace THEN LStrip(Tail(s)) ELSE s

RECURSIVE RStrip(_)
RStrip(s) ==
    IF s # <<>> /\ s[Len(s)] \in Whitespace THEN RStrip(SubSeq(s, 1, Len(s) - 1)) ELSE s

Strip(s) == RStrip(LStrip(s))

\* sep.join(parts)
RECURSIVE Join(_, _)
Join(parts, sep) ==
    IF parts = <<>> THEN <<>>
    ELSE IF Len(parts) = 1 THEN parts[1]
    ELSE parts[1] \o sep \o Join(Tail(parts), sep)

SentenceSep == <<".", " ">>

\* The comprehension without its `if piece.strip()` filter.
SentenceLikePartsKeepBlank(text) ==
    LET pieces == Split(text, SentenceSep)
    IN  [i \in 1..Len(pieces) |-> Strip(pieces[i])]

\* [piece.strip() for piece in text.split(". ") if piece.strip()]
SentenceLikeParts(text) ==
    LET pieces == Split(text, SentenceSep)
        stripped == [i \in 1..Len(pieces) |-> Strip(pieces[i])]
    IN  SelectSeq(stripped, LAMBDA p : p # <<>>)

\* The grouping with the cut after the first unit: parts[:1] and parts[1:].
MergedGroupsCutAfterFirst(text) ==
    LET parts == SentenceLikeParts(text)
    IN  IF Len(parts) <= 2
        THEN <<Join(parts, SentenceSep)>>
        ELSE <<Join(SubSeq(parts, 1, 1), SentenceSep),
               Join(SubSeq(parts, 2, Len(parts)), SentenceSep)>>

\* merged_groups of semantic_chunk_documents for one document text
MergedGroups(text) ==
    LET parts == SentenceLikeParts(text)
    IN  IF Len(parts) <= 2
        THEN <<Join(parts, SentenceSep)>>
        ELSE <<Join(SubSeq(parts, 1, 2), SentenceSep),
               Join(SubSeq(parts, 3, Len(parts)), SentenceSep)>>

SemanticChunksOf(document) ==
    LET groups == MergedGroups(document.text)
    IN  [idx \in 1..Len(groups) |->
            Chunk(document.doc_id \o SemTag \o Format02d(idx - 1),
                  document.doc_id,
                  document.section,
                  groups[idx])]

semantic_chunk_documents(docs) ==
    Flatten([d \in 1..Len(docs) |-> SemanticChunksOf(docs[d])])

----------------------------------------------------------------------------
(* Inputs of the chunking calls *)

Letters == <<"a", "b", "c", "d", "e", "f", "g", "h">>

\* Texts of pairwise distinct neighbouring characters, of every length up to
\* MaxTextLen: a lost, repeated or moved character changes the text.
PlainTexts == {[i \in 1..n |-> Letters[((i - 1) % Len(Letters)) + 1]] : n \in 0..MaxTextLen}

\* Texts with sentence delimiters, blank pieces and stray whitespace.
SentenceTexts ==
    { <<"a", ".", " ", "b">>,
      <<"a", ".", " ", "b", ".", " ", "c">>,
      <<"a", ".", " ", "b", ".", " ", "c", ".", " ", "d", ".">>,
      <<" ", ".", " ", "a", ".", " ">>,
      <<".", " ">>,
      <<" ">> }

Texts == PlainTexts \cup SentenceTexts

DocHeads == { [doc_id |-> <<"D", "1">>, section |-> "Remote Work"],
              [doc_id |-> <<"D", "2">>, section |-> "Security"] }

Documents ==
    { [doc_id |-> h.doc_id, title |-> "T", section |-> h.section, text |-> t] :
        h \in DocHeads, t \in Texts }

----------------------------------------------------------------------------
(* Python's sorted(items, key=..., reverse=True) *)

\* Place x behind every element whose key is >= x.key: with reverse=True the
\* sort stays stable, so elements of equal key keep their original order.
RECURSIVE InsertDesc(_, _)
InsertDesc(s, x) ==
    IF s = <<>> THEN <<x>>
    ELSE IF Head(s).key >= x.key THEN <<Head(s)>> \o InsertDesc(Tail(s), x)
    ELSE <<x>> \o s

RECURSIVE SortedReverseFrom(_, _)
SortedReverseFrom(acc, items) ==
    IF items = <<>> THEN acc
    ELSE SortedReverseFrom(InsertDesc(acc, Head(items)), Tail(items))

\* Place x behind every element whose key is <= x.key (stable, ascending).
RECURSIVE InsertAsc(_, _)
InsertAsc(s, x) ==
    IF s = <<>> THEN <<x>>
    ELSE IF Head(s).key <= x.key THEN <<Head(s)>> \o InsertAsc(Tail(s), x)
    ELSE <<x>> \o s

RECURSIVE SortedFrom(_, _)
SortedFrom(acc, items) ==
    IF items = <<>> THEN acc
    ELSE SortedFrom(InsertAsc(acc, Head(items)), Tail(items))

\* sorted(items, key=...)
Sorted(items) == SortedFrom(<<>>, items)

\* sorted(items, key=...)[::-1]: descending, but equal keys in reversed order.
SortedThenReversed(items) ==
    LET asc == Sorted(items) IN [i \in 1..Len(asc) |-> asc[Len(asc) + 1 - i]]

\* items: a sequence of [key, val]; the result holds the same records.
SortedReverse(items) == SortedReverseFrom(<<>>, items)

RetrievalResult(chunk_id, score, source, text) ==
    [chunk_id |-> chunk_id, score |-> score, source |-> source, text |-> text]

----------------------------------------------------------------------------
(* retrieval.py: the BM25 keyword index (rank_bm25.BM25Okapi, k1 = 1.5,     *)
(* b = 0.75, epsilon = 0.25).  Scores are fixed-point: idf in 1/1000, the   *)
(* score of a document in 1/100000.                                         *)

LowerChar(c) ==
    CASE c = "A" -> "a"
      [] c = "B" -> "b"
      [] c = "C" -> "c"
      [] OTHER -> c

\* str.lower()
Lower(s) == [i \in 1..Len(s) |-> LowerChar(s[i])]

\* str.split() without argument: cut at runs of whitespace, no empty tokens.
RECURSIVE SplitWords(_, _)
SplitWords(s, word) ==
    IF s = <<>> THEN (IF word = <<>> THEN <<>> ELSE <<word>>)
    ELSE IF Head(s) \in Whitespace
         THEN (IF word = <<>> THEN <<>> ELSE <<word>>) \o SplitWords(Tail(s), <<>>)
         ELSE SplitWords(Tail(s), word \o <<Head(s)>>)

\* text.lower().split()
Tokenize(text) == SplitWords(Lower(text), <<>>)

Count(s, x) == Cardinality({i \in 1..Len(s) : s[i] = x})

RECURSIVE SumSeq(_)
SumSeq(s) == IF s = <<>> THEN 0 ELSE Head(s) + SumSeq(Tail(s))

RECURSIVE SumOver(_, _)
SumOver(S, f) ==
    IF S = {} THEN 0
    ELSE LET x == CHOOSE y \in S : TRUE IN f[x] + SumOver(S \ {x}, f)

\* 1000 * ln(n + 0.5) for n = 0, 1, 2, ...
LnHalfMilli == <<-693, 405, 916, 1253, 1504, 1705, 1872, 2015, 2140, 2251, 2351>>
LnHalf(n) == LnHalfMilli[n + 1]

NoIndex == [corpus_size |-> -1]

\* BM25Okapi(tokenized): _initialize then _calc_idf.  The result is either
\* [raised |-> "ZeroDivisionError"] or [raised |-> "", index |-> ...].
BM25Okapi(tokenized) ==
    LET corpus_size == Len(tokenized)
        doc_len == [d \in 1..corpus_size |-> Len(tokenized[d])]
        num_doc == SumSeq(doc_len)
        words == UNION {Range(tokenized[d]) : d \in 1..corpus_size}
        doc_freqs == [d \in 1..corpus_size |->
                        [w \in Range(tokenized[d]) |-> Count(tokenized[d], w)]]
        nd == [w \in words |->
                 Cardinality({d \in 1..corpus_size : w \in Range(tokenized[d])})]
        raw_idf == [w \in words |-> LnHalf(corpus_size - nd[w]) - LnHalf(nd[w])]
        idf_sum == SumOver(words, raw_idf)
    IN  IF corpus_size = 0
        THEN [raised |-> "ZeroDivisionError"]     \* avgdl = num_doc / corpus_size
        ELSE IF words = {}
        THEN [raised |-> "ZeroDivisionError"]     \* average_idf = idf_sum / len(idf)
        ELSE LET average_idf == idf_sum \div Cardinality(words)
                 eps == average_idf \div 4
             IN  [raised |-> "",
                  index |-> [corpus_size |-> corpus_size,
                             num_doc |-> num_doc,      \* avgdl = num_doc / corpus_size
                             doc_freqs |-> doc_freqs,
                             doc_len |-> doc_len,
                             idf |-> [w \in words |->
                                        IF raw_idf[w] < 0 THEN eps ELSE raw_idf[w]]]]

\* One summand of get_scores for query token q and document d:
\*   idf[q] * f * (k1 + 1) / (f + k1 * (1 - b + b * doc_len / avgdl))
\* with k1 = 3/2, b = 3/4 and avgdl = num_doc / corpus_size, that is
\*   idf[q] * 20 f num_doc / (8 f num_doc + 3 num_doc + 9 doc_len corpus_size).
TermScore(ix, q, d) ==
    LET f == IF q \in DOMAIN ix.doc_freqs[d] THEN ix.doc_freqs[d][q] ELSE 0
        w == IF q \in DOMAIN ix.idf THEN ix.idf[q] ELSE 0
    IN  (w * 20 * f * ix.num_doc * 100)
        \div (8 * f * ix.num_doc + 3 * ix.num_doc + 9 * ix.doc_len[d] * ix.corpus_size)

\* index.get_scores(query_tokens): one score per indexed document.
GetScores(ix, query_tokens) ==
    [d \in 1..ix.corpus_size |->
        SumSeq([i \in 1..Len(query_tokens) |-> TermScore(ix, query_tokens[i], d)])]

\* build_bm25(chunks)
build_bm25(chs) ==
    LET corp == [i \in 1..Len(chs) |-> chs[i].text]
        tokenized == [i \in 1..Len(corp) |-> Tokenize(corp[i])]
        built == BM25Okapi(tokenized)
    IN  IF built.raised # ""
        THEN [raised |-> built.raised]
        ELSE [raised |-> "", index |-> built.index, corpus |-> corp,
              chunk_ids |-> [i \in 1..Len(chs) |-> chs[i].chunk_id]]

\* The ranking without reverse=True: lowest score first.
RankedPositionsAscending(scores, tk) ==
    LET items == [i \in 1..Len(scores) |-> [key |-> scores[i], val |-> i]]
        order == Sorted(items)
    IN  Slice([i \in 1..Len(order) |-> order[i].val], 0, tk)

\* sorted(range(len(scores)), key=lambda idx: scores[idx], reverse=True)[:top_k]
RankedPositions(scores, tk) ==
    LET items == [i \in 1..Len(scores) |-> [key |-> scores[i], val |-> i]]
        order == SortedReverse(items)
    IN  Slice([i \in 1..Len(order) |-> order[i].val], 0, tk)

\* bm25_search(index, query, corpus, chunk_ids, top_k), top_k >= 0
bm25_search(ix, q, corp, ids, tk) ==
    LET scores == GetScores(ix, Tokenize(q))
        rk == RankedPositions(scores, tk)
    IN  [i \in 1..Len(rk) |->
            RetrievalResult(ids[rk[i]], scores[rk[i]], "keyword", corp[rk[i]])]

----------------------------------------------------------------------------
(* retrieval.py: Reciprocal Rank Fusion.  A fused score is the rational     *)
(* num / den, every score of one call over the same denominator             *)
(* RrfScale(k, n) = (k+1)(k+2)...(k+n), n the length of the longer list.    *)

RECURSIVE RrfScale(_, _)
RrfScale(kk, n) == IF n = 0 THEN 1 ELSE (kk + n) * RrfScale(kk, n - 1)

\* The contribution with ranks counted from 0: 1 / (k + rank - 1).
ContributionZeroBased(kk, rank, scale) == scale \div (kk + rank - 1)

\* 1 / (k + rank) over the denominator scale
Contribution(kk, rank, scale) == scale \div (kk + rank)

\* fused_scores (a defaultdict(float), keys in insertion order) and text_lookup
EmptyFusion == [keys |-> <<>>, val |-> <<>>, text |-> <<>>]

\* A list of (chunk_id, score) rows instead of a dict: a chunk_id seen again
\* gets a row of its own.
FusionAddNoMerge(d, chunk_id, inc, text) ==
    [keys |-> Append(d.keys, chunk_id),
     val |-> (chunk_id :> inc) @@ d.val,
     text |-> (chunk_id :> text) @@ d.text]

\* fused_scores[chunk_id] = inc: assignment where the code accumulates.
FusionAddOverwrite(d, chunk_id, inc, text) ==
    IF chunk_id \in Range(d.keys)
    THEN [d EXCEPT !.val[chunk_id] = inc, !.text[chunk_id] = text]
    ELSE [keys |-> Append(d.keys, chunk_id),
          val |-> (chunk_id :> inc) @@ d.val,
          text |-> (chunk_id :> text) @@ d.text]

\* fused_scores[chunk_id] += inc; text_lookup[chunk_id] = text
FusionAdd(d, chunk_id, inc, text) ==
    IF chunk_id \in Range(d.keys)
    THEN [d EXCEPT !.val[chunk_id] = @ + inc, !.text[chunk_id] = text]
    ELSE [keys |-> Append(d.keys, chunk_id),
          val |-> (chunk_id :> inc) @@ d.val,
          text |-> (chunk_id :> text) @@ d.text]

\* for rank, result in enumerate(list, start=rank): ...
RECURSIVE FusionLoop(_, _, _, _, _)
FusionLoop(d, list, kk, scale, rank) ==
    IF list = <<>> THEN d
    ELSE FusionLoop(FusionAdd(d, Head(list).chunk_id,
                              Contribution(kk, rank, scale), Head(list).text),
                    Tail(list), kk, scale, rank + 1)

\* reciprocal_rank_fusion(dense_results, keyword_results, k)
reciprocal_rank_fusion(dense, keyword, kk) ==
    LET n == IF Len(dense) > Len(keyword) THEN Len(dense) ELSE Len(keyword)
        scale == RrfScale(kk, n)
        d1 == FusionLoop(EmptyFusion, dense, kk, scale, 1)
        d2 == FusionLoop(d1, keyword, kk, scale, 1)
        items == [i \in 1..Len(d2.keys) |-> [key |-> d2.val[d2.keys[i]], val |-> d2.keys[i]]]
        sorted_results == SortedReverse(items)
    IN  [i \in 1..Len(sorted_results) |->
            RetrievalResult(sorted_results[i].val,
                            [num |-> sorted_results[i].key, den |-> scale],
                            "hybrid",
                            d2.text[sorted_results[i].val])]

----------------------------------------------------------------------------
(* reranking.py: LocalCrossEncoderReranker.rerank.  self.model.predict is   *)
(* the external cross-encoder: it returns one score per pair, in order.     *)

\* pairs = [[query, result.text] for result in results]
Pairs(q, res) == [i \in 1..Len(res) |-> <<q, res[i].text>>]

\* rerank without its `if not results: return []` guard.
CallsModelAlways(res) == TRUE

\* True when rerank calls self.model.predict at all.
CallsModel(res) == res # <<>>

\* rerank that sorts by the model score but returns result.score, the
\* first-pass score, in the rows.
rerank_keeps_first_pass_score(q, res, tk, scores) ==
    IF res = <<>> THEN <<>>
    ELSE LET scored == [i \in 1..Len(res) |->
                          [key |-> scores[i],
                           val |-> RetrievalResult(res[i].chunk_id, res[i].score,
                                                   "reranked", res[i].text)]]
             order == SortedReverse(scored)
         IN  Slice([i \in 1..Len(order) |-> order[i].val], 0, tk)

\* rerank(query, results, top_k) when predict returned `scores`, top_k >= 0
rerank(q, res, tk, scores) ==
    IF ~CallsModel(res) THEN <<>>
    ELSE LET scored == [i \in 1..Len(res) |->
                          [key |-> scores[i],
                           val |-> RetrievalResult(res[i].chunk_id, scores[i],
                                                   "reranked", res[i].text)]]
             order == SortedReverse(scored)
         IN  Slice([i \in 1..Len(order) |-> order[i].val], 0, tk)

----------------------------------------------------------------------------
(* evaluation.py.  A returned float is the exact rational num / den.        *)

Rational(num, den) == [num |-> num, den |-> den]

Zero == Rational(0, 1)

One == Rational(1, 1)

Max(a, b) == IF a > b THEN a ELSE b

\* Python's `sub in s` on strings: sub occurs somewhere in s ("" occurs in all).
Contains(s, sub) == \E i \in 1..(Len(s) + 1) : OccursAt(s, sub, i)

\* for rank, result in enumerate(list, start=rank): the rank of the first
\* result whose chunk_id contains target, 0 when the loop runs out.
RECURSIVE FirstMatch(_, _, _)
FirstMatch(list, target, rank) ==
    IF list = <<>> THEN 0
    ELSE IF Contains(Head(list).chunk_id, target) THEN rank
    ELSE FirstMatch(Tail(list), target, rank + 1)

\* recall_at_k with the window results[:k + 1].
recall_at_k_wide_window(res, target, kk) ==
    IF FirstMatch(Slice(res, 0, kk + 1), target, 1) # 0 THEN One ELSE Zero

\* recall_at_k over the whole list: the cutoff k is ignored.
recall_at_k_whole_list(res, target, kk) ==
    IF FirstMatch(res, target, 1) # 0 THEN One ELSE Zero

\* recall_at_k(results, query, k), k >= 0
recall_at_k(res, target, kk) ==
    LET window == Slice(res, 0, kk)
    IN  IF FirstMatch(window, target, 1) # 0 THEN One ELSE Zero

\* reciprocal_rank with enumerate(results), ranks counted from 0; a hit at
\* rank 0 would divide by zero and is reported as the rational 1/0.
reciprocal_rank_zero_based(res, target) ==
    LET rank == FirstMatch(res, target, 1)
    IN  IF rank # 0 THEN Rational(1, rank - 1) ELSE Zero

\* reciprocal_rank(results, query)
reciprocal_rank(res, target) ==
    LET rank == FirstMatch(res, target, 1)
    IN  IF rank # 0 THEN Rational(1, rank) ELSE Zero

\* Characters of the class [a-zA-Z0-9-]
TokenChars == Range(Letters) \cup {"A", "B", "C"} \cup Range(DigitChars) \cup {"-"}

\* re.findall(r"[a-zA-Z0-9-]+", s): the maximal runs of class characters.
RECURSIVE FindAll(_, _)
FindAll(s, word) ==
    IF s = <<>> THEN (IF word = <<>> THEN <<>> ELSE <<word>>)
    ELSE IF Head(s) \in TokenChars
         THEN FindAll(Tail(s), word \o <<Head(s)>>)
         ELSE (IF word = <<>> THEN <<>> ELSE <<word>>) \o FindAll(Tail(s), <<>>)

\* _normalize(text)
normalize(text) == Range(FindAll(Lower(text), <<>>))

\* The context tokens taken without lower().
ContextTokensCaseSensitive(ctxs) == UNION {Range(FindAll(ctxs[i], <<>>)) : i \in 1..Len(ctxs)}

\* context_tokens after the loop over contexts
ContextTokens(ctxs) == UNION {normalize(ctxs[i]) : i \in 1..Len(ctxs)}

\* groundedness_score without `if not answer_tokens` and without max(.., 1).
groundedness_score_unguarded(ans, ctxs) ==
    LET answer_tokens == normalize(ans)
        overlap == Cardinality(answer_tokens \cap ContextTokens(ctxs))
    IN  Rational(overlap, Cardinality(answer_tokens))

\* groundedness_score(answer, contexts)
groundedness_score(ans, ctxs) ==
    LET answer_tokens == normalize(ans)
        overlap == Cardinality(answer_tokens \cap ContextTokens(ctxs))
    IN  IF answer_tokens = {} THEN Zero
        ELSE Rational(overlap, Max(Cardinality(answer_tokens), 1))

EvalRow(query_id, recall, mrr, latency_ms, groundedness) ==
    [query_id |-> query_id, recall_at_k |-> recall, mrr |-> mrr,
     latency_ms |-> latency_ms, groundedness |-> groundedness]

RatAdd(a, b) == Rational(a.num * b.den + b.num * a.den, a.den * b.den)

\* sum(values): 0 plus the values, left to right
RECURSIVE RatSumFrom(_, _)
RatSumFrom(acc, values) ==
    IF values = <<>> THEN acc ELSE RatSumFrom(RatAdd(acc, Head(values)), Tail(values))

\* sum(values) / len(values); over no values the divisor is 0
Mean(values) ==
    LET total == RatSumFrom(Zero, values)
    IN  Rational(total.num, total.den * Len(values))

\* summarize without `if not rows`.
summarize_unguarded(rs) ==
    [recall_at_k |-> Mean([i \in 1..Len(rs) |-> rs[i].recall_at_k]),
     mrr |-> Mean([i \in 1..Len(rs) |-> rs[i].mrr]),
     latency_ms |-> Mean([i \in 1..Len(rs) |-> rs[i].latency_ms]),
     groundedness |-> Mean([i \in 1..Len(rs) |-> rs[i].groundedness])]

\* summarize(rows)
summarize(rs) ==
    IF rs = <<>>
    THEN [recall_at_k |-> Zero, mrr |-> Zero, latency_ms |-> Zero, groundedness |-> Zero]
    ELSE [recall_at_k |-> Mean([i \in 1..Len(rs) |-> rs[i].recall_at_k]),
          mrr |-> Mean([i \in 1..Len(rs) |-> rs[i].mrr]),
          latency_ms |-> Mean([i \in 1..Len(rs) |-> rs[i].latency_ms]),
          groundedness |-> Mean([i \in 1..Len(rs) |-> rs[i].groundedness])]

NoRow == [query_id |-> ""]

\* A callable passed as retrieval_fn: its signature, what each successive run
\* of its body does ("return" or the exception it raises), and what it returns.
RetrievalFn(signature, body, returns) ==
    [signature |-> signature, body |-> body, returns |-> returns]

\* A callable passed as answer_fn: what its body does and the answer returned.
AnswerFn(body, returns) == [body |-> body, returns |-> returns]

\* Python binds the arguments before the body runs: f(q) rejects a top_k
\* keyword, f(q, top_k) without default rejects a call that omits it.
Accepts(signature, kwargs) ==
    CASE signature = "question_only" -> kwargs = {}
      [] signature = "top_k_optional" -> TRUE
      [] signature = "top_k_required" -> kwargs = {"top_k"}

\* One call of retrieval_fn after `runs` earlier runs of its body.
CallRetrieval(fn, kwargs, runs) ==
    IF ~Accepts(fn.signature, kwargs)
    THEN [fn |-> "retrieval_fn", kwargs |-> kwargs, raised |-> "TypeError",
          cause |-> "signature", ran |-> FALSE]
    ELSE [fn |-> "retrieval_fn", kwargs |-> kwargs,
          raised |-> IF fn.body[runs + 1] = "return" THEN "" ELSE fn.body[runs + 1],
          cause |-> IF fn.body[runs + 1] = "return" THEN "" ELSE "body",
          ran |-> TRUE]

\* One call of answer_fn(query.question, contexts).
CallAnswer(fn, ctxs) ==
    [fn |-> "answer_fn", kwargs |-> {}, contexts |-> ctxs,
     raised |-> IF fn.body = "return" THEN "" ELSE fn.body,
     cause |-> IF fn.body = "return" THEN "" ELSE "body",
     ran |-> TRUE]

\* The texts of every retrieved item, whatever top_k is.
ContextsOfAll(retrieved, tk) == [i \in 1..Len(retrieved) |-> retrieved[i].text]

\* [item.text for item in retrieved[:top_k]], top_k >= 0
ContextsOf(retrieved, tk) ==
    LET window == Slice(retrieved, 0, tk)
    IN  [i \in 1..Len(window) |-> window[i].text]

\* evaluate_single(query, retrieval_fn, answer_fn, top_k), top_k >= 0, when the
\* two perf_counter readings are `elapsed` apart.  The result is the calls
\* made, the exception that left the function ("" when it returned) and the
\* EvalRow returned.
evaluate_single(query_id, target, fn, afn, tk, elapsed) ==
    LET first == CallRetrieval(fn, {"top_k"}, 0)
        second == CallRetrieval(fn, {}, IF first.ran THEN 1 ELSE 0)
        retried == first.raised = "TypeError"                    \* except TypeError:
        calls == IF retried THEN <<first, second>> ELSE <<first>>
        last == IF retried THEN second ELSE first
    IN  IF last.raised # ""
        THEN [calls |-> calls, raised |-> last.raised, retrieved |-> <<>>, row |-> NoRow]
        ELSE LET retrieved == fn.returns
                 ctxs == ContextsOf(retrieved, tk)
                 answered == CallAnswer(afn, ctxs)
             IN  IF answered.raised # ""
                 THEN [calls |-> Append(calls, answered), raised |-> answered.raised,
                       retrieved |-> retrieved, row |-> NoRow]
                 ELSE [calls |-> Append(calls, answered), raised |-> "",
                       retrieved |-> retrieved,
                       row |-> EvalRow(query_id,
                                       recall_at_k(retrieved, target, tk),
                                       reciprocal_rank(retrieved, target),
                                       elapsed,
                                       groundedness_score(afn.returns, ctxs))]

----------------------------------------------------------------------------
(* pipeline.py: the hybrid retriever.  Its lists are as long as top_k, too   *)
(* long for the common denominator RrfScale, so here every fused score is a  *)
(* rational of its own and the loops of reciprocal_rank_fusion are computed  *)
(* per chunk_id: the score of a chunk_id is the sum of 1/(k + rank) over its *)
(* positions in the two lists, the dict keeps the chunk_ids in first-seen    *)
(* order, and sorted(..., reverse=True) is stable.                           *)

RatGreater(a, b) == a.num * b.den > b.num * a.den

RatEqual(a, b) == a.num * b.den = b.num * a.den

\* 1 / (k + rank) with ranks counted from 0
RankContributionZeroBased(kk, rank) == Rational(1, kk + rank - 1)

\* 1 / (k + rank)
RankContribution(kk, rank) == Rational(1, kk + rank)

PositionsOf(list, chunk_id) == {p \in 1..Len(list) : list[p].chunk_id = chunk_id}

RECURSIVE RankSum(_, _)
RankSum(positions, kk) ==
    IF positions = {} THEN Zero
    ELSE LET p == CHOOSE q \in positions : TRUE
         IN  RatAdd(RankContribution(kk, p), RankSum(positions \ {p}, kk))

\* fused_scores[chunk_id] after both loops
FusedScore(dense, keyword, kk, chunk_id) ==
    RatAdd(RankSum(PositionsOf(dense, chunk_id), kk),
           RankSum(PositionsOf(keyword, chunk_id), kk))

\* the keys of fused_scores, in insertion order
InsertionOrder(dense, keyword) ==
    LET all == dense \o keyword
        firsts == SelectSeq([i \in 1..Len(all) |-> i],
                            LAMBDA i : \A j \in 1..(i - 1) :
                                           all[j].chunk_id # all[i].chunk_id)
    IN  [i \in 1..Len(firsts) |-> all[firsts[i]].chunk_id]

\* text_lookup[chunk_id]: the text of the last result that holds chunk_id
TextLookup(dense, keyword, chunk_id) ==
    LET all == dense \o keyword
        last == CHOOSE p \in PositionsOf(all, chunk_id) :
                    \A q \in PositionsOf(all, chunk_id) : q <= p
    IN  all[last].text

\* sorted(items, key=score, reverse=True): items[i] goes behind every item
\* of greater score and every earlier item of equal score
SortedByScoreDesc(items) ==
    LET n == Len(items)
        place == [i \in 1..n |->
                     1 + Cardinality({j \in 1..n :
                                         \/ RatGreater(items[j].score, items[i].score)
                                         \/ /\ RatEqual(items[j].score, items[i].score)
                                            /\ j < i})]
    IN  [p \in 1..n |-> items[CHOOSE i \in 1..n : place[i] = p]]

\* reciprocal_rank_fusion(dense_results, keyword_results, k), scores exact
ReciprocalRankFusionExact(dense, keyword, kk) ==
    LET keys == InsertionOrder(dense, keyword)
    IN  SortedByScoreDesc([i \in 1..Len(keys) |->
                              RetrievalResult(keys[i],
                                              FusedScore(dense, keyword, kk, keys[i]),
                                              "hybrid",
                                              TextLookup(dense, keyword, keys[i]))])

\* k=60 in the call of reciprocal_rank_fusion
HybridK == 60

\* retrieve(question, top_k) of build_hybrid_retriever, top_k >= 0.  The dense
\* retriever and bm25_search each return the first top_k of their ranking.
hybrid_retrieve(dense_ranking, keyword_ranking, tk) ==
    LET dense == Slice(dense_ranking, 0, tk)
        keyword == Slice(keyword_ranking, 0, tk)
        all == ReciprocalRankFusionExact(dense, keyword, HybridK)
    IN  [dense_results |-> dense, keyword_results |-> keyword, fused |-> all,
         returned |-> Slice(all, 0, tk)]

----------------------------------------------------------------------------
(* Python's order of str values: by code point, character by character; a    *)
(* proper prefix comes first.                                                *)

\* the characters of chunk ids, in code point order
CodePointOrder ==
    <<"-">> \o DigitChars \o
    <<"A", "B", "C", "D", "E", "F", "G", "H", "I", "J", "K", "L", "M",
      "N", "O", "P", "Q", "R", "S", "T", "U", "V", "W", "X", "Y", "Z">>

CodePoint(c) == CHOOSE i \in 1..Len(CodePointOrder) : CodePointOrder[i] = c

\* a <= b for two str values
RECURSIVE StrLeq(_, _)
StrLeq(a, b) ==
    IF a = <<>> THEN TRUE
    ELSE IF b = <<>> THEN FALSE
    ELSE IF Head(a) = Head(b) THEN StrLeq(Tail(a), Tail(b))
    ELSE CodePoint(Head(a)) < CodePoint(Head(b))

\* a < b for two str values
StrLess(a, b) == a # b /\ StrLeq(a, b)

\* One pass of the while loop of fixed_chunk_documents: the chunk made at
\* (start, part).
FixedPass(document, size, start, part) ==
    Chunk(document.doc_id \o FixTag \o Format02d(part),
          document.doc_id,
          document.section,
          Slice(document.text, start, start + size))

----------------------------------------------------------------------------
(* agent_state.py.  Python objects that the caller and the StateManager can  *)
(* both reach are kept in a heap: heap[a] is the AgentState at address a, a  *)
(* reference to a state is its address.  A Checkpoint holds the address of   *)
(* its snapshot.                                                             *)

AgentState(question, steps, status, current_answer) ==
    [question |-> question, steps |-> steps, status |-> status,
     current_answer |-> current_answer]

Checkpoint(checkpoint_id, step_number, label, state) ==
    [checkpoint_id |-> checkpoint_id, step_number |-> step_number, label |-> label,
     state |-> state]

\* self._checkpoints = {}: a dict, keys in insertion order
NoCheckpoints == [keys |-> <<>>, val |-> <<>>]

\* key in d
DictHas(d, key) == key \in Range(d.keys)

\* d[key] = value: a key already present keeps its place and gets the new value
DictSet(d, key, value) ==
    IF DictHas(d, key)
    THEN [d EXCEPT !.val[key] = value]
    ELSE [keys |-> Append(d.keys, key), val |-> (key :> value) @@ d.val]

\* list(d.values())
DictValues(d) == [i \in 1..Len(d.keys) |-> d.val[d.keys[i]]]

\* copy.deepcopy(h[a]): a new object with an equal value, at a new address
deepcopy(h, a) == [heap |-> Append(h, h[a]), addr |-> Len(h) + 1]

StepLabel == <<"s", "t", "e", "p", "_">>

\* save_checkpoint(state, label) when uuid4().hex[:8] gave checkpoint_id
save_checkpoint(cps, h, state, label, checkpoint_id) ==
    LET snapshot == deepcopy(h, state)
        n == Len(h[state].steps)
    IN  [checkpoints |->
             DictSet(cps, checkpoint_id,
                     Checkpoint(checkpoint_id, n,
                                IF label # <<>> THEN label ELSE StepLabel \o Decimal(n),
                                snapshot.addr)),
         heap |-> snapshot.heap,
         raised |-> "",
         returned |-> checkpoint_id]

\* load_checkpoint that hands out the stored state and drops the checkpoint
load_checkpoint_popping(cps, h, checkpoint_id) ==
    IF ~DictHas(cps, checkpoint_id)
    THEN [checkpoints |-> cps, heap |-> h, raised |-> "KeyError", returned |-> 0]
    ELSE LET rest == SelectSeq(cps.keys, LAMBDA key : key # checkpoint_id)
         IN  [checkpoints |-> [keys |-> rest, val |-> [key \in Range(rest) |-> cps.val[key]]],
              heap |-> h, raised |-> "", returned |-> cps.val[checkpoint_id].state]

\* load_checkpoint(checkpoint_id)
load_checkpoint(cps, h, checkpoint_id) ==
    IF ~DictHas(cps, checkpoint_id)
    THEN [checkpoints |-> cps, heap |-> h, raised |-> "KeyError", returned |-> 0]
    ELSE LET copy == deepcopy(h, cps.val[checkpoint_id].state)
         IN  [checkpoints |-> cps, heap |-> copy.heap, raised |-> "", returned |-> copy.addr]

\* rewind_to(checkpoint_id)
rewind_to(cps, h, checkpoint_id) == load_checkpoint(cps, h, checkpoint_id)

\* list_checkpoints(): the stored Checkpoint objects, sorted by step_number
list_checkpoints(cps) ==
    LET values == DictValues(cps)
        sorted_values == Sorted([i \in 1..Len(values) |->
                                    [key |-> values[i].step_number, val |-> values[i]]])
    IN  [i \in 1..Len(sorted_values) |-> sorted_values[i].val]

\* state.steps.append(step)
AppendStep(s, step) == [s EXCEPT !.steps = Append(@, step)]

\* state.status = status
SetStatus(s, status) == [s EXCEPT !.status = status]

----------------------------------------------------------------------------
(* agent_loop.py.  A Python value that comes out of the model's JSON is a    *)
(* record [type, value]; value is the text of the value.                     *)

\* no AgentResult / ReflectionResult (the call has not returned)
NoResult == [question |-> ""]

JString(s) == [type |-> "string", value |-> s]

\* a JSON array (a Python list): not hashable
JArray(s) == [type |-> "array", value |-> s]

\* a JSON object: fields maps the keys that are present to their values
JObject(fields) == [type |-> "object", fields |-> fields]

\* text that json.loads rejects with JSONDecodeError
JInvalid == [type |-> "JSONDecodeError"]

\* hash(v) succeeds
Hashable(v) == v.type \notin {"array", "object"}

\* parsed.get(key, default) on a dict
DictGet(parsed, key, default) ==
    IF key \in DOMAIN parsed.fields THEN parsed.fields[key] ELSE default

AgentStep(thought, action, action_input, observation) ==
    [thought |-> thought, action |-> action, action_input |-> action_input,
     observation |-> observation]

AgentResult(question, answer_text, step_list) ==
    [question |-> question, answer |-> answer_text, steps |-> step_list]

Message(role, content) == [role |-> role, content |-> content]

Finish == <<"f", "i", "n", "i", "s", "h">>
Retrieve == <<"r", "e", "t", "r", "i", "e", "v", "e">>
Search == <<"s", "e", "a", "r", "c", "h">>

\* the tools map of the call: one tool, "retrieve"
ToolNames == {Retrieve}

UnknownToolText == <<"U", "n", "k", "n", "o", "w", "n", " ", "t", "o", "o", "l", " ", "'">>
AvailableText == <<"'", ".", " ", "A", "v", "a", "i", "l", "a", "b", "l", "e", ":", " ">>
ToolNamesText == <<"[", "'">> \o Retrieve \o <<"'", "]">>
ToolErrorText == <<"T", "o", "o", "l", " ", "e", "r", "r", "o", "r", ":", " ">>
ObservationText == <<"O", "b", "s", "e", "r", "v", "a", "t", "i", "o", "n", ":", " ">>
ContinueText == <<"\n", "C", "o", "n", "t", "i", "n", "u", "e", ".">>
NoAnswerText == <<"N", "o", " ", "a", "n", "s", "w", "e", "r", " ",
                  "p", "r", "o", "d", "u", "c", "e", "d", ".">>

\* what the tool returns, as str(...), and the message of the exception it raises
ToolOutput == <<"d", "o", "c">>
ToolFailure == <<"b", "o", "o", "m">>

\* The body of the for loop for one LLM response.  response.content is the
\* message content, response.json what json.loads makes of it (after the code
\* fences are stripped); outcome is what the tool does
\* if it is called.  next is "return", "raise" or "continue".
ReactIteration(question, msgs, step_list, response, outcome) ==
    LET raw == response.content
        Return(answer_text) ==
            [next |-> "return", raised |-> "",
             result |-> AgentResult(question, answer_text, step_list),
             steps |-> step_list, messages |-> msgs]
        Raise(exc) ==
            [next |-> "raise", raised |-> exc, result |-> NoResult,
             steps |-> step_list, messages |-> msgs]
    IN  IF response.json = JInvalid THEN Return(JString(Strip(raw)))
        ELSE IF response.json.type # "object" THEN Raise("AttributeError")
        ELSE
        LET parsed == response.json
            thought == DictGet(parsed, "thought", JString(<<>>))
            action == DictGet(parsed, "action", JString(Finish))
            action_input == DictGet(parsed, "action_input", JString(<<>>))
        IN  IF action = JString(Finish) THEN Return(action_input)
            ELSE IF ~Hashable(action) THEN Raise("TypeError")
            ELSE
            LET observation ==
                    IF action.value \notin ToolNames
                    THEN JString(UnknownToolText \o action.value \o AvailableText
                                 \o ToolNamesText)
                    ELSE IF outcome = "return" THEN JString(ToolOutput)
                    ELSE JString(ToolErrorText \o ToolFailure)
            IN  [next |-> "continue", raised |-> "", result |-> NoResult,
                 steps |-> Append(step_list,
                                  AgentStep(thought, action.value, action_input,
                                            observation)),
                 messages |-> msgs \o
                     << Message("assistant", raw),
                        Message("user", ObservationText \o observation.value
                                        \o ContinueText) >>]

\* the two statements after the for loop
ReactExhausted(question, step_list) ==
    LET last_obs == IF step_list # <<>> THEN step_list[Len(step_list)].observation
                    ELSE JString(NoAnswerText)
    IN  AgentResult(question, last_obs, step_list)

----------------------------------------------------------------------------
(* reflection.py *)

CriticFeedback(approved, feedback_text) == [approved |-> approved, feedback |-> feedback_text]

ReflectionResult(question, final_answer, rounds, history_list) ==
    [question |-> question, final_answer |-> final_answer, rounds |-> rounds,
     history |-> history_list]

TrueText == <<"T", "r", "u", "e">>
FalseText == <<"F", "a", "l", "s", "e">>

\* a JSON true / false
JBool(b) == [type |-> "bool", value |-> IF b THEN TrueText ELSE FalseText]

\* bool(v)
Truthy(v) == IF v.type = "bool" THEN v.value = TrueText ELSE v.value # <<>>

\* critic_review, from the parse of the critic model's response on
CriticParse(json) ==
    IF json = JInvalid THEN [raised |-> "", critique |-> CriticFeedback(TRUE, <<>>)]
    ELSE IF json.type # "object"
    THEN [raised |-> "AttributeError", critique |-> CriticFeedback(FALSE, <<>>)]
    ELSE [raised |-> "",
          critique |-> CriticFeedback(Truthy(DictGet(json, "approved", JBool(FALSE))),
                                      DictGet(json, "feedback", JString(<<>>)).value)]

HistoryEntry(round, answer_text, critique) ==
    [round |-> round, answer |-> answer_text, approved |-> critique.approved,
     feedback |-> critique.feedback]

\* The loop body after the critic answered, without the early return: an
\* approval does not end the loop.
ReflectionRoundNoEarlyReturn(question, round, rounds_max, answer_text, critique, history_list) ==
    [next |-> IF round < rounds_max THEN "worker" ELSE "exit",
     history |-> Append(history_list, HistoryEntry(round, answer_text, critique)),
     feedback |-> critique.feedback,
     result |-> NoResult]

\* The loop body of run_reflection_loop after critic_review returned critique:
\* the history entry, the early return, the feedback for the next round.
ReflectionRound(question, round, rounds_max, answer_text, critique, history_list) ==
    LET entries == Append(history_list, HistoryEntry(round, answer_text, critique))
    IN  IF critique.approved
        THEN [next |-> "done", history |-> entries, feedback |-> critique.feedback,
              result |-> ReflectionResult(question, answer_text, round, entries)]
        ELSE [next |-> IF round < rounds_max THEN "worker" ELSE "exit",
              history |-> entries, feedback |-> critique.feedback, result |-> NoResult]

----------------------------------------------------------------------------
(* State before any call *)

ChunkIdle == documents = <<>> /\ chunk_size = 1 /\ chunks = <<>>

BM25Idle ==
    /\ bm_chunks = <<>> /\ index = NoIndex /\ corpus = <<>> /\ chunk_ids = <<>>
    /\ query = <<>> /\ top_k = 0 /\ results = <<>>

RRFIdle == dense_results = <<>> /\ keyword_results = <<>> /\ k = 60 /\ fused = <<>>

RerankIdle ==
    candidates = <<>> /\ predict_calls = <<>> /\ predict_scores = <<>> /\ ranked = <<>>

NoSummary == [recall_at_k |-> Zero]

NoFn == [body |-> ""]

EvalIdle ==
    /\ ev_results = <<>> /\ target_doc_id = <<>> /\ recall_k = 0 /\ metric = Zero
    /\ answer = <<>> /\ contexts = <<>>
    /\ rows = <<>> /\ summary = NoSummary
    /\ retrieval_fn = NoFn /\ answer_fn = NoFn /\ eval_top_k = 0
    /\ fn_calls = <<>> /\ row = NoRow

NoShared ==
    [index |-> NoIndex, corpus |-> <<>>, chunk_ids |-> <<>>,
     dense_results |-> <<>>, keyword_results |-> <<>>,
     results |-> <<>>, contexts |-> <<>>]

ConcIdle == shared = NoShared /\ threads = <<>>

LoopIdle == fix_doc = 0 /\ fix_start = 0 /\ fix_part = 0

CoreIdle ==
    ChunkIdle /\ BM25Idle /\ RRFIdle /\ RerankIdle /\ EvalIdle /\ ConcIdle /\ LoopIdle

StateIdle ==
    /\ heap = <<>> /\ checkpoints = NoCheckpoints /\ held = {} /\ listed = <<>>
    /\ saved = <<>> /\ sm_arg = "" /\ sm_returned = "" /\ sm_ops = 0

ReactIdle ==
    /\ max_steps = 0 /\ react_pc = "" /\ llm_calls = <<>> /\ react_steps = <<>>
    /\ messages = <<>> /\ react_result = NoResult

ReflectIdle ==
    /\ max_rounds = 0 /\ refl_pc = "" /\ round_num = 0 /\ refl_answer = <<>>
    /\ refl_feedback = <<>> /\ history = <<>> /\ refl_calls = <<>>
    /\ refl_result = NoResult

AgentIdle == LoopIdle /\ StateIdle /\ ReactIdle /\ ReflectIdle

----------------------------------------------------------------------------
(* Chunking calls *)

InitChunk ==
    /\ called = "" /\ raised = ""
    /\ documents \in SeqsUpTo(Documents, MaxDocs)
    /\ chunk_size \in 1..MaxChunkSize
    /\ chunks = <<>>
    /\ BM25Idle /\ RRFIdle /\ RerankIdle /\ EvalIdle /\ ConcIdle /\ AgentIdle

FixedChunk ==
    /\ called = ""
    /\ chunks' = fixed_chunk_documents(documents, chunk_size)
    /\ called' = "fixed_chunk_documents"
    /\ UNCHANGED <<raised, documents, chunk_size, bm25Vars, rrfVars, rerankVars, evalVars, concVars, agentVars>>

SemanticChunk ==
    /\ called = ""
    /\ chunks' = semantic_chunk_documents(documents)
    /\ called' = "semantic_chunk_documents"
    /\ UNCHANGED <<raised, documents, chunk_size, bm25Vars, rrfVars, rerankVars, evalVars, concVars, agentVars>>

NextChunk == FixedChunk \/ SemanticChunk

SpecChunk == InitChunk /\ [][NextChunk]_vars

----------------------------------------------------------------------------
(* Keyword index calls *)

KeywordTexts ==
    { <<>>,
      <<"a">>,
      <<"A", " ", "b">>,
      <<"b", " ", "b">>,
      <<" ", "b", " ", " ", "a">> }

Queries ==
    { <<>>,
      <<" ">>,
      <<"a">>,
      <<"B", " ", "a">>,
      <<"c">> }

KeywordId(i) == <<"K">> \o Format02d(i)

\* Chunk lists with the chunk_id naming the position and any text.
KeywordChunkLists ==
    { [i \in 1..Len(ts) |-> Chunk(KeywordId(i), <<"K">>, "S", ts[i])] :
        ts \in SeqsUpTo(KeywordTexts, MaxChunks) }

InitBM25 ==
    /\ called = "" /\ raised = ""
    /\ bm_chunks \in KeywordChunkLists
    /\ index = NoIndex /\ corpus = <<>> /\ chunk_ids = <<>>
    /\ query = <<>> /\ top_k = 0 /\ results = <<>>
    /\ ChunkIdle /\ RRFIdle /\ RerankIdle /\ EvalIdle /\ ConcIdle /\ AgentIdle

BuildBM25 ==
    /\ called = ""
    /\ LET built == build_bm25(bm_chunks)
       IN  /\ raised' = built.raised
           /\ IF built.raised = ""
              THEN /\ index' = built.index
                   /\ corpus' = built.corpus
                   /\ chunk_ids' = built.chunk_ids
              ELSE UNCHANGED <<index, corpus, chunk_ids>>
    /\ called' = "build_bm25"
    /\ UNCHANGED <<bm_chunks, query, top_k, results, chunkVars, rrfVars, rerankVars, evalVars, concVars, agentVars>>

\* A search needs the index a build returned; the index is read, never written.
SearchBM25 ==
    /\ index # NoIndex
    /\ \E q \in Queries, tk \in 0..MaxTopK :
          /\ query' = q
          /\ top_k' = tk
          /\ results' = bm25_search(index, q, corpus, chunk_ids, tk)
    /\ called' = "bm25_search"
    /\ raised' = ""
    /\ UNCHANGED <<bm_chunks, index, corpus, chunk_ids, chunkVars, rrfVars, rerankVars, evalVars, concVars, agentVars>>

NextBM25 == BuildBM25 \/ SearchBM25

SpecBM25 == InitBM25 /\ [][NextBM25]_vars

----------------------------------------------------------------------------
(* Fusion calls *)

ChunkIds == {"C1", "C2", "C3"}

DenseResults == {RetrievalResult(c, 5, "dense", "dense text") : c \in ChunkIds}

KeywordResults == {RetrievalResult(c, 7, "keyword", "keyword text") : c \in ChunkIds}

\* k: the default 60 and the smallest positive integer
KValues == {1, 60}

InitRRF ==
    /\ called = "" /\ raised = ""
    /\ dense_results \in SeqsUpTo(DenseResults, MaxRankLen)
    /\ keyword_results \in SeqsUpTo(KeywordResults, MaxRankLen)
    /\ k \in KValues
    /\ fused = <<>>
    /\ ChunkIdle /\ BM25Idle /\ RerankIdle /\ EvalIdle /\ ConcIdle /\ AgentIdle

Fuse ==
    /\ called = ""
    /\ fused' = reciprocal_rank_fusion(dense_results, keyword_results, k)
    /\ called' = "reciprocal_rank_fusion"
    /\ UNCHANGED <<raised, dense_results, keyword_results, k, chunkVars, bm25Vars, rerankVars, evalVars, concVars, agentVars>>

NextRRF == Fuse

SpecRRF == InitRRF /\ [][NextRRF]_vars

----------------------------------------------------------------------------
(* Reranking calls *)

CandidatePool ==
    { RetrievalResult("C-low", 3, "dense", "low relevance text"),
      RetrievalResult("C-high", 2, "keyword", "high relevance text"),
      RetrievalResult("C-mid", 1, "hybrid", "low relevance text") }

\* Scores the cross-encoder may return
ModelScores == {1, 2, 3}

RerankQueries == {"query"}

InitRerank ==
    /\ called = "" /\ raised = ""
    /\ candidates \in SeqsUpTo(CandidatePool, MaxCandidates)
    /\ query \in RerankQueries
    /\ top_k \in 0..MaxTopK
    /\ predict_calls = <<>> /\ predict_scores = <<>> /\ ranked = <<>>
    /\ bm_chunks = <<>> /\ index = NoIndex /\ corpus = <<>> /\ chunk_ids = <<>>
    /\ results = <<>>
    /\ ChunkIdle /\ RRFIdle /\ EvalIdle /\ ConcIdle /\ AgentIdle

\* rerank on an empty candidate list: returns before the model is used.
RerankEmpty ==
    /\ called = ""
    /\ ~CallsModel(candidates)
    /\ ranked' = rerank(query, candidates, top_k, <<>>)
    /\ called' = "rerank"
    /\ UNCHANGED <<raised, candidates, predict_calls, predict_scores,
                   chunkVars, bm25Vars, rrfVars, evalVars, concVars, agentVars>>

\* rerank on candidates: one predict call, whose scores the model chooses.
RerankScored ==
    /\ called = ""
    /\ CallsModel(candidates)
    /\ \E scores \in [1..Len(candidates) -> ModelScores] :
          /\ predict_calls' = Append(predict_calls, Pairs(query, candidates))
          /\ predict_scores' = scores
          /\ ranked' = rerank(query, candidates, top_k, scores)
    /\ called' = "rerank"
    /\ UNCHANGED <<raised, candidates, chunkVars, bm25Vars, rrfVars, evalVars, concVars, agentVars>>

NextRerank == RerankEmpty \/ RerankScored

SpecRerank == InitRerank /\ [][NextRerank]_vars

----------------------------------------------------------------------------
(* Evaluation calls: the ranking metrics *)

EvalId1 == <<"D", "1">> \o FixTag \o Format02d(0)
EvalId2 == <<"D", "2">> \o FixTag \o Format02d(1)
EvalId12 == <<"D", "1", "2">> \o SemTag \o Format02d(0)

EvalResultPool ==
    { RetrievalResult(EvalId1, 3, "dense", <<"a", " ", "b">>),
      RetrievalResult(EvalId2, 2, "keyword", <<"c">>),
      RetrievalResult(EvalId12, 1, "hybrid", <<"B", "-", "a", "!">>) }

\* target_doc_id: two that match, one that is part of a longer doc_id as well,
\* one that matches nothing, and the empty string
Targets == { <<"D", "1">>, <<"D", "2">>, <<"D", "1", "2">>, <<"D", "3">>, <<>> }

InitRank ==
    /\ called = "" /\ raised = ""
    /\ ev_results \in SeqsUpTo(EvalResultPool, MaxResults)
    /\ target_doc_id \in Targets
    /\ recall_k = 0 /\ metric = Zero
    /\ answer = <<>> /\ contexts = <<>>
    /\ rows = <<>> /\ summary = NoSummary
    /\ retrieval_fn = NoFn /\ answer_fn = NoFn /\ eval_top_k = 0
    /\ fn_calls = <<>> /\ row = NoRow
    /\ ChunkIdle /\ BM25Idle /\ RRFIdle /\ RerankIdle /\ ConcIdle /\ AgentIdle

RecallAtK ==
    /\ called = ""
    /\ \E kk \in 0..MaxCutoff :
          /\ recall_k' = kk
          /\ metric' = recall_at_k(ev_results, target_doc_id, kk)
    /\ called' = "recall_at_k"
    /\ UNCHANGED <<raised, ev_results, target_doc_id, answer, contexts, rows, summary,
                   retrieval_fn, answer_fn, eval_top_k, fn_calls, row,
                   chunkVars, bm25Vars, rrfVars, rerankVars, concVars, agentVars>>

ReciprocalRank ==
    /\ called = ""
    /\ metric' = reciprocal_rank(ev_results, target_doc_id)
    /\ called' = "reciprocal_rank"
    /\ UNCHANGED <<raised, ev_results, target_doc_id, recall_k, answer, contexts, rows,
                   summary, retrieval_fn, answer_fn, eval_top_k, fn_calls, row,
                   chunkVars, bm25Vars, rrfVars, rerankVars, concVars, agentVars>>

NextRank == RecallAtK \/ ReciprocalRank

SpecRank == InitRank /\ [][NextRank]_vars

----------------------------------------------------------------------------
(* Evaluation calls: groundedness *)

\* Texts without a token, with upper case, with a hyphenated token, with
\* punctuation between tokens, and with disjoint vocabularies.
GroundTexts ==
    { <<>>,
      <<"!", " ">>,
      <<"a", " ", "b">>,
      <<"A", "-", "b", " ", "a">>,
      <<"b", ".", "c">>,
      <<"c", " ", "d">> }

InitGround ==
    /\ called = "" /\ raised = ""
    /\ answer \in GroundTexts
    /\ contexts \in SeqsUpTo(GroundTexts, MaxContexts)
    /\ ev_results = <<>> /\ target_doc_id = <<>> /\ recall_k = 0 /\ metric = Zero
    /\ rows = <<>> /\ summary = NoSummary
    /\ retrieval_fn = NoFn /\ answer_fn = NoFn /\ eval_top_k = 0
    /\ fn_calls = <<>> /\ row = NoRow
    /\ ChunkIdle /\ BM25Idle /\ RRFIdle /\ RerankIdle /\ ConcIdle /\ AgentIdle

GroundednessScore ==
    /\ called = ""
    /\ metric' = groundedness_score(answer, contexts)
    /\ called' = "groundedness_score"
    /\ UNCHANGED <<raised, ev_results, target_doc_id, recall_k, answer, contexts, rows,
                   summary, retrieval_fn, answer_fn, eval_top_k, fn_calls, row,
                   chunkVars, bm25Vars, rrfVars, rerankVars, concVars, agentVars>>

NextGround == GroundednessScore

SpecGround == InitGround /\ [][NextGround]_vars

----------------------------------------------------------------------------
(* Evaluation calls: summarize *)

\* Rows as evaluate_single returns them, and one row built by hand with a
\* metric outside [0, 1].
SampleRows ==
    { EvalRow("Q-1", One, One, Rational(100, 1), Rational(1, 2)),
      EvalRow("Q-2", Zero, Zero, Rational(250, 1), Zero),
      EvalRow("Q-3", One, Rational(1, 3), Zero, One),
      EvalRow("Q-4", One, Rational(1, 2), Rational(100, 1), Rational(1, 3)),
      EvalRow("Q-5", One, Rational(2, 1), Rational(7, 1), One) }

InitSummarize ==
    /\ called = "" /\ raised = ""
    /\ rows \in SeqsUpTo(SampleRows, MaxRows)
    /\ summary = NoSummary
    /\ ev_results = <<>> /\ target_doc_id = <<>> /\ recall_k = 0 /\ metric = Zero
    /\ answer = <<>> /\ contexts = <<>>
    /\ retrieval_fn = NoFn /\ answer_fn = NoFn /\ eval_top_k = 0
    /\ fn_calls = <<>> /\ row = NoRow
    /\ ChunkIdle /\ BM25Idle /\ RRFIdle /\ RerankIdle /\ ConcIdle /\ AgentIdle

Summarize ==
    /\ called = ""
    /\ summary' = summarize(rows)
    /\ called' = "summarize"
    /\ UNCHANGED <<raised, ev_results, target_doc_id, recall_k, metric, answer, contexts,
                   rows, retrieval_fn, answer_fn, eval_top_k, fn_calls, row,
                   chunkVars, bm25Vars, rrfVars, rerankVars, concVars, agentVars>>

NextSummarize == Summarize

SpecSummarize == InitSummarize /\ [][NextSummarize]_vars

----------------------------------------------------------------------------
(* Evaluation calls: evaluate_single *)

Signatures == {"question_only", "top_k_optional", "top_k_required"}

Outcomes == {"return", "TypeError", "ValueError"}

ReturnedLists ==
    { <<>>,
      <<RetrievalResult(EvalId1, 3, "dense", <<"a", " ", "b">>)>>,
      <<RetrievalResult(EvalId2, 2, "keyword", <<"c">>),
        RetrievalResult(EvalId1, 3, "dense", <<"a", " ", "b">>)>>,
      <<RetrievalResult(EvalId2, 2, "keyword", <<"c">>),
        RetrievalResult(EvalId12, 1, "hybrid", <<"B", "-", "a", "!">>)>> }

RetrievalFns ==
    { RetrievalFn(s, b, r) : s \in Signatures, b \in [1..2 -> Outcomes], r \in ReturnedLists }

AnswerFns == { AnswerFn(b, a) : b \in Outcomes, a \in { <<>>, <<"a", " ", "d">> } }

\* perf_counter is monotonic: the elapsed time is never negative
ElapsedMs == { Zero, Rational(12, 1) }

EvalQueryId == "Q-1"

InitEvalSingle ==
    /\ called = "" /\ raised = ""
    /\ retrieval_fn \in RetrievalFns
    /\ answer_fn \in AnswerFns
    /\ target_doc_id \in { <<"D", "1">>, <<"D", "3">> }
    /\ eval_top_k \in 0..2
    /\ ev_results = <<>> /\ recall_k = 0 /\ metric = Zero
    /\ answer = <<>> /\ contexts = <<>>
    /\ rows = <<>> /\ summary = NoSummary
    /\ fn_calls = <<>> /\ row = NoRow
    /\ ChunkIdle /\ BM25Idle /\ RRFIdle /\ RerankIdle /\ ConcIdle /\ AgentIdle

EvaluateSingle ==
    /\ called = ""
    /\ \E elapsed \in ElapsedMs :
          LET out == evaluate_single(EvalQueryId, target_doc_id, retrieval_fn, answer_fn,
                                     eval_top_k, elapsed)
          IN  /\ fn_calls' = out.calls
              /\ raised' = out.raised
              /\ ev_results' = out.retrieved
              /\ row' = out.row
    /\ called' = "evaluate_single"
    /\ UNCHANGED <<target_doc_id, recall_k, metric, answer, contexts, rows, summary,
                   retrieval_fn, answer_fn, eval_top_k,
                   chunkVars, bm25Vars, rrfVars, rerankVars, concVars, agentVars>>

NextEvalSingle == EvaluateSingle

SpecEvalSingle == InitEvalSingle /\ [][NextEvalSingle]_vars

----------------------------------------------------------------------------
(* Concurrent use of the core.  Worker threads call bm25_search,             *)
(* reciprocal_rank_fusion, recall_at_k, reciprocal_rank and                  *)
(* groundedness_score on the same index and the same lists.  A call runs in  *)
(* steps, one per statement or loop iteration; at every step it reads the    *)
(* shared object as it is then, and keeps what it computes in its locals.    *)

\* What a thread calls: the function and its immutable arguments (str, int).
Call(op, q, tk, kk, target, cutoff, ans) ==
    [op |-> op, query |-> q, top_k |-> tk, k |-> kk,
     target |-> target, cutoff |-> cutoff, answer |-> ans]

ConcCalls ==
    { Call("bm25_search", <<"B", " ", "a">>, 2, 0, <<>>, 0, <<>>),
      Call("bm25_search", <<"a">>, 1, 0, <<>>, 0, <<>>),
      Call("reciprocal_rank_fusion", <<>>, 0, 60, <<>>, 0, <<>>),
      Call("recall_at_k", <<>>, 0, 0, <<"D", "2">>, 1, <<>>),
      Call("recall_at_k", <<>>, 0, 0, <<"D", "1">>, 2, <<>>),
      Call("reciprocal_rank", <<>>, 0, 0, <<"D", "1", "2">>, 0, <<>>),
      Call("groundedness_score", <<>>, 0, 0, <<>>, 0, <<"A", "-", "b", " ", "a">>) }

ConcChunks ==
    <<Chunk(KeywordId(1), <<"K">>, "S", <<"b", " ", "b">>),
      Chunk(KeywordId(2), <<"K">>, "S", <<"A", " ", "b">>),
      Chunk(KeywordId(3), <<"K">>, "S", <<"a">>)>>

\* The objects the threads share: one built index with its corpus and
\* chunk_ids, two ranked lists, one result list, one context list.
SharedObjects ==
    { [index |-> build_bm25(ConcChunks).index,
       corpus |-> build_bm25(ConcChunks).corpus,
       chunk_ids |-> build_bm25(ConcChunks).chunk_ids,
       dense_results |-> dense,
       keyword_results |-> <<RetrievalResult("C2", 7, "keyword", "keyword text"),
                             RetrievalResult("C1", 7, "keyword", "keyword text")>>,
       results |-> <<RetrievalResult(EvalId1, 3, "dense", <<"a", " ", "b">>),
                     RetrievalResult(EvalId2, 2, "keyword", <<"c">>),
                     RetrievalResult(EvalId12, 1, "hybrid", <<"B", "-", "a", "!">>)>>,
       contexts |-> ctxs] :
        dense \in { <<RetrievalResult("C1", 5, "dense", "dense text")>>,
                    <<RetrievalResult("C3", 5, "dense", "dense text"),
                      RetrievalResult("C2", 5, "dense", "dense text")>> },
        ctxs \in { <<<<"a", " ", "b">>, <<"c", " ", "d">>>>,
                   <<<<"a", "-", "b">>>> } }

NoCall == Call("", <<>>, 0, 0, <<>>, 0, <<>>)

IdleThread ==
    [pc |-> "idle", call |-> NoCall, given |-> NoShared, i |-> 0, loc |-> <<>>, result |-> <<>>]

\* window = results[:k] with `del results[k:]; window = results`: the cut is
\* made in the caller's list.
TakeWindowInPlace(res, kk) == [window |-> Slice(res, 0, kk), results |-> Slice(res, 0, kk)]

\* window = results[:k]: the slice is a new list, results is left as it was.
TakeWindow(res, kk) == [window |-> Slice(res, 0, kk), results |-> res]

\* lines 79-83 of reciprocal_rank_fusion: sort the fused scores, build the rows
SortedFusion(d, scale) ==
    LET items == [i \in 1..Len(d.keys) |-> [key |-> d.val[d.keys[i]], val |-> d.keys[i]]]
        sorted_results == SortedReverse(items)
    IN  [i \in 1..Len(sorted_results) |->
            RetrievalResult(sorted_results[i].val,
                            [num |-> sorted_results[i].key, den |-> scale],
                            "hybrid",
                            d.text[sorted_results[i].val])]

\* The result the call of thread record th gives when it runs alone on the
\* objects it was given.
Alone(th) ==
    CASE th.call.op = "bm25_search" ->
            bm25_search(th.given.index, th.call.query, th.given.corpus,
                        th.given.chunk_ids, th.call.top_k)
      [] th.call.op = "reciprocal_rank_fusion" ->
            reciprocal_rank_fusion(th.given.dense_results, th.given.keyword_results, th.call.k)
      [] th.call.op = "recall_at_k" ->
            recall_at_k(th.given.results, th.call.target, th.call.cutoff)
      [] th.call.op = "reciprocal_rank" ->
            reciprocal_rank(th.given.results, th.call.target)
      [] th.call.op = "groundedness_score" ->
            groundedness_score(th.call.answer, th.given.contexts)

Running(t, op) ==
    /\ threads[t].call.op = op
    /\ threads[t].pc \notin {"idle", "done"}

InitConc ==
    /\ called = "" /\ raised = ""
    /\ shared \in SharedObjects
    /\ threads = [t \in 1..MaxThreads |-> IdleThread]
    /\ ChunkIdle /\ BM25Idle /\ RRFIdle /\ RerankIdle /\ EvalIdle /\ AgentIdle

\* A thread enters a call; the objects it is given are the shared ones.
StartCall(t) ==
    /\ threads[t].pc = "idle"
    /\ \E c \in ConcCalls :
          threads' = [threads EXCEPT ![t] =
                         [pc |-> "enter", call |-> c, given |-> shared, i |-> 0,
                          loc |-> <<>>, result |-> <<>>]]
    /\ UNCHANGED <<called, raised, shared, chunkVars, bm25Vars, rrfVars, rerankVars, evalVars, agentVars>>

\* One step of bm25_search: get_scores adds one query token's term to every
\* document's score per iteration, then the positions are ranked, then one
\* RetrievalResult is built per ranked position.
StepBM25Search(t) ==
    LET th == threads[t]
        c == th.call
    IN  /\ Running(t, "bm25_search")
        /\ threads' = [threads EXCEPT ![t] =
              CASE th.pc = "enter" ->
                      [th EXCEPT !.pc = "get_scores", !.i = 0,
                                 !.loc = [tokens |-> Tokenize(c.query),
                                          scores |-> [d \in 1..shared.index.corpus_size |-> 0],
                                          ranked |-> <<>>,
                                          out |-> <<>>]]
                [] th.pc = "get_scores" /\ th.i < Len(th.loc.tokens) ->
                      [th EXCEPT !.i = @ + 1,
                                 !.loc.scores =
                                     [d \in DOMAIN @ |->
                                         @[d] + TermScore(shared.index, th.loc.tokens[th.i + 1], d)]]
                [] th.pc = "get_scores" /\ th.i >= Len(th.loc.tokens) ->
                      [th EXCEPT !.pc = "build", !.i = 0,
                                 !.loc.ranked = RankedPositions(th.loc.scores, c.top_k)]
                [] th.pc = "build" /\ th.i < Len(th.loc.ranked) ->
                      [th EXCEPT !.i = @ + 1,
                                 !.loc.out =
                                     Append(@, RetrievalResult(
                                                   shared.chunk_ids[th.loc.ranked[th.i + 1]],
                                                   th.loc.scores[th.loc.ranked[th.i + 1]],
                                                   "keyword",
                                                   shared.corpus[th.loc.ranked[th.i + 1]]))]
                [] th.pc = "build" /\ th.i >= Len(th.loc.ranked) ->
                      [th EXCEPT !.pc = "done", !.result = th.loc.out]]
        /\ UNCHANGED <<called, raised, shared, chunkVars, bm25Vars, rrfVars, rerankVars, evalVars, agentVars>>

\* One step of reciprocal_rank_fusion: one iteration of the loop over
\* dense_results, of the loop over keyword_results, or the final sort.
StepFusion(t) ==
    LET th == threads[t]
        c == th.call
        n == Max(Len(shared.dense_results), Len(shared.keyword_results))
        scale == RrfScale(c.k, n)
    IN  /\ Running(t, "reciprocal_rank_fusion")
        /\ threads' = [threads EXCEPT ![t] =
              CASE th.pc = "enter" ->
                      [th EXCEPT !.pc = "dense", !.i = 0, !.loc = EmptyFusion]
                [] th.pc = "dense" /\ th.i < Len(shared.dense_results) ->
                      [th EXCEPT !.i = @ + 1,
                                 !.loc = FusionAdd(@, shared.dense_results[th.i + 1].chunk_id,
                                                   Contribution(c.k, th.i + 1, scale),
                                                   shared.dense_results[th.i + 1].text)]
                [] th.pc = "dense" /\ th.i >= Len(shared.dense_results) ->
                      [th EXCEPT !.pc = "keyword", !.i = 0]
                [] th.pc = "keyword" /\ th.i < Len(shared.keyword_results) ->
                      [th EXCEPT !.i = @ + 1,
                                 !.loc = FusionAdd(@, shared.keyword_results[th.i + 1].chunk_id,
                                                   Contribution(c.k, th.i + 1, scale),
                                                   shared.keyword_results[th.i + 1].text)]
                [] th.pc = "keyword" /\ th.i >= Len(shared.keyword_results) ->
                      [th EXCEPT !.pc = "done", !.result = SortedFusion(th.loc, scale)]]
        /\ UNCHANGED <<called, raised, shared, chunkVars, bm25Vars, rrfVars, rerankVars, evalVars, agentVars>>

\* One step of recall_at_k: the slice, then one iteration of the loop over
\* the window.  The slice is the only statement that touches the list object.
StepRecallAtK(t) ==
    LET th == threads[t]
        c == th.call
        taken == TakeWindow(shared.results, c.cutoff)
    IN  /\ Running(t, "recall_at_k")
        /\ IF th.pc = "enter"
           THEN /\ threads' = [threads EXCEPT ![t] =
                                  [th EXCEPT !.pc = "loop", !.i = 0, !.loc = taken.window]]
                /\ shared' = [shared EXCEPT !.results = taken.results]
           ELSE /\ threads' = [threads EXCEPT ![t] =
                      CASE th.i >= Len(th.loc) ->
                              [th EXCEPT !.pc = "done", !.result = Zero]
                        [] th.i < Len(th.loc) /\ Contains(th.loc[th.i + 1].chunk_id, c.target) ->
                              [th EXCEPT !.pc = "done", !.result = One]
                        [] OTHER ->
                              [th EXCEPT !.i = @ + 1]]
                /\ UNCHANGED shared
        /\ UNCHANGED <<called, raised, chunkVars, bm25Vars, rrfVars, rerankVars, evalVars, agentVars>>

\* One step of reciprocal_rank: one iteration of the loop over results.
StepReciprocalRank(t) ==
    LET th == threads[t]
        c == th.call
    IN  /\ Running(t, "reciprocal_rank")
        /\ threads' = [threads EXCEPT ![t] =
              CASE th.pc = "enter" ->
                      [th EXCEPT !.pc = "loop", !.i = 0]
                [] th.pc = "loop" /\ th.i >= Len(shared.results) ->
                      [th EXCEPT !.pc = "done", !.result = Zero]
                [] th.pc = "loop" /\ th.i < Len(shared.results)
                     /\ Contains(shared.results[th.i + 1].chunk_id, c.target) ->
                      [th EXCEPT !.pc = "done", !.result = Rational(1, th.i + 1)]
                [] OTHER ->
                      [th EXCEPT !.i = @ + 1]]
        /\ UNCHANGED <<called, raised, shared, chunkVars, bm25Vars, rrfVars, rerankVars, evalVars, agentVars>>

\* One step of groundedness_score: the answer tokens and the early return,
\* one iteration of the loop over contexts, or the final division.
StepGroundedness(t) ==
    LET th == threads[t]
        c == th.call
    IN  /\ Running(t, "groundedness_score")
        /\ threads' = [threads EXCEPT ![t] =
              CASE th.pc = "enter" /\ normalize(c.answer) = {} ->
                      [th EXCEPT !.pc = "done", !.result = Zero]
                [] th.pc = "enter" /\ normalize(c.answer) # {} ->
                      [th EXCEPT !.pc = "loop", !.i = 0,
                                 !.loc = [answer_tokens |-> normalize(c.answer),
                                          context_tokens |-> {}]]
                [] th.pc = "loop" /\ th.i < Len(shared.contexts) ->
                      [th EXCEPT !.i = @ + 1,
                                 !.loc.context_tokens = @ \cup normalize(shared.contexts[th.i + 1])]
                [] th.pc = "loop" /\ th.i >= Len(shared.contexts) ->
                      [th EXCEPT !.pc = "done",
                                 !.result =
                                     Rational(Cardinality(th.loc.answer_tokens
                                                              \cap th.loc.context_tokens),
                                              Max(Cardinality(th.loc.answer_tokens), 1))]]
        /\ UNCHANGED <<called, raised, shared, chunkVars, bm25Vars, rrfVars, rerankVars, evalVars, agentVars>>

NextConc ==
    \E t \in 1..MaxThreads :
        \/ StartCall(t)
        \/ StepBM25Search(t)
        \/ StepFusion(t)
        \/ StepRecallAtK(t)
        \/ StepReciprocalRank(t)
        \/ StepGroundedness(t)

SpecConc == InitConc /\ [][NextConc]_vars

----------------------------------------------------------------------------
(* fixed_chunk_documents, one step per pass of its while loop, on one long   *)
(* document: enough characters for a hundred chunks and more.                *)

\* text of n characters, "0123456789012..."
LongText(n) == [i \in 1..n |-> DigitChars[((i - 1) % 10) + 1]]

LongTextLens == {0, 7, MaxLongTextLen - 1, MaxLongTextLen}

LongDocuments ==
    { [doc_id |-> <<"D", "1">>, title |-> "T", section |-> "Remote Work",
       text |-> LongText(n)] : n \in LongTextLens }

InitLongChunk ==
    /\ called = "" /\ raised = ""
    /\ documents \in { <<d>> : d \in LongDocuments }
    /\ chunk_size \in 1..MaxChunkSize
    /\ chunks = <<>>
    /\ fix_doc = 0 /\ fix_start = 0 /\ fix_part = 0
    /\ BM25Idle /\ RRFIdle /\ RerankIdle /\ EvalIdle /\ ConcIdle
    /\ StateIdle /\ ReactIdle /\ ReflectIdle

\* chunks = []; the for loop takes the first document
FixedChunkEnter ==
    /\ called = "" /\ fix_doc = 0
    /\ chunks' = <<>>
    /\ fix_doc' = 1 /\ fix_start' = 0 /\ fix_part' = 0
    /\ UNCHANGED <<called, raised, documents, chunk_size, bm25Vars, rrfVars, rerankVars,
                   evalVars, concVars, stateVars, reactVars, reflectVars>>

\* while start < len(document.text): one chunk
FixedChunkPass ==
    /\ called = "" /\ fix_doc \in 1..Len(documents)
    /\ fix_start < Len(documents[fix_doc].text)
    /\ chunks' = Append(chunks, FixedPass(documents[fix_doc], chunk_size, fix_start, fix_part))
    /\ fix_start' = fix_start + chunk_size
    /\ fix_part' = fix_part + 1
    /\ UNCHANGED <<called, raised, documents, chunk_size, fix_doc, bm25Vars, rrfVars,
                   rerankVars, evalVars, concVars, stateVars, reactVars, reflectVars>>

\* the while loop ends: the for loop takes the next document
FixedChunkNextDocument ==
    /\ called = "" /\ fix_doc \in 1..Len(documents)
    /\ fix_start >= Len(documents[fix_doc].text)
    /\ fix_doc' = fix_doc + 1 /\ fix_start' = 0 /\ fix_part' = 0
    /\ UNCHANGED <<called, raised, documents, chunk_size, chunks, bm25Vars, rrfVars,
                   rerankVars, evalVars, concVars, stateVars, reactVars, reflectVars>>

\* return chunks
FixedChunkReturn ==
    /\ called = "" /\ fix_doc = Len(documents) + 1
    /\ called' = "fixed_chunk_documents"
    /\ UNCHANGED <<raised, chunkVars, fix_doc, fix_start, fix_part, bm25Vars, rrfVars,
                   rerankVars, evalVars, concVars, stateVars, reactVars, reflectVars>>

NextLongChunk ==
    FixedChunkEnter \/ FixedChunkPass \/ FixedChunkNextDocument \/ FixedChunkReturn

SpecLongChunk == InitLongChunk /\ [][NextLongChunk]_vars

----------------------------------------------------------------------------
(* Hybrid retriever calls *)

HybridChunkId(n) == <<"C", "-">> \o Decimal(n)

\* the n best chunks of the dense retriever: C-1, C-2, ..., C-n
DenseRanking(n) ==
    [i \in 1..n |-> RetrievalResult(HybridChunkId(i), Rational(n - i, 1), "dense", <<"d">>)]

\* m chunks in BM25 order: C-(s+m-1) down to C-s
KeywordRankingDown(s, m) ==
    [i \in 1..m |-> RetrievalResult(HybridChunkId(s + m - i), Rational(m - i, 1),
                                    "keyword", <<"k">>)]

\* m chunks in BM25 order: C-s up to C-(s+m-1)
KeywordRankingUp(s, m) ==
    [i \in 1..m |-> RetrievalResult(HybridChunkId(s + i - 1), Rational(m - i, 1),
                                    "keyword", <<"k">>)]

\* the hybrid retriever is well-ordered up to this many results per list
HybridLimit == HybridK + 1

RankingLens == {0, 1, 3, HybridLimit}

DenseRankings == { DenseRanking(n) : n \in RankingLens }

KeywordRankings ==
    { KeywordRankingDown(s, m) : s \in {1, 2, HybridLimit}, m \in RankingLens }
    \cup { KeywordRankingUp(s, m) : s \in {1, 3, HybridLimit}, m \in RankingLens }

HybridTopKs == (0..MaxTopK) \cup {HybridLimit}

InitHybrid ==
    /\ called = "" /\ raised = ""
    /\ top_k \in HybridTopKs
    /\ bm_chunks = <<>> /\ index = NoIndex /\ corpus = <<>> /\ chunk_ids = <<>>
    /\ query = <<>> /\ results = <<>>
    /\ ChunkIdle /\ RRFIdle /\ RerankIdle /\ EvalIdle /\ ConcIdle /\ AgentIdle

HybridRetrieve ==
    /\ called = ""
    /\ \E dense_ranking \in DenseRankings, keyword_ranking \in KeywordRankings :
          LET out == hybrid_retrieve(dense_ranking, keyword_ranking, top_k)
          IN  /\ dense_results' = out.dense_results
              /\ keyword_results' = out.keyword_results
              /\ fused' = out.fused
              /\ results' = out.returned
    /\ called' = "retrieve"
    /\ UNCHANGED <<raised, k, bm_chunks, index, corpus, chunk_ids, query, top_k,
                   chunkVars, rerankVars, evalVars, concVars, agentVars>>

NextHybrid == HybridRetrieve

SpecHybrid == InitHybrid /\ [][NextHybrid]_vars

----------------------------------------------------------------------------
(* StateManager calls.  The caller holds references to AgentState objects   *)
(* (the ones it made and the ones load_checkpoint / rewind_to returned) and  *)
(* to the Checkpoint objects list_checkpoints returned, and may mutate any   *)
(* of them between calls.  uuid4().hex[:8] is a random 32-bit value: the     *)
(* identifier of a save is any value of UuidPrefixes, one already in use     *)
(* included.                                                                 *)

UuidPrefixes == {"3f2a9c01", "b7e4d210"}

\* identifiers a caller may look up: the ones above and one never handed out
LookupIds == UuidPrefixes \cup {"ffffffff"}

Labels == { <<>>, <<"a">> }

AgentStep1 == [thought |-> "t", action |-> "retrieve", observation |-> "o"]

InitialStates ==
    { AgentState("q", <<>>, "running", <<>>),
      AgentState("q", <<AgentStep1>>, "running", <<>>) }

InitState ==
    /\ called = "" /\ raised = ""
    /\ heap \in { <<s>> : s \in InitialStates }
    /\ checkpoints = NoCheckpoints
    /\ held = {1}
    /\ listed = <<>>
    /\ saved = <<>>
    /\ sm_arg = "" /\ sm_returned = ""
    /\ sm_ops = 0
    /\ CoreIdle /\ ReactIdle /\ ReflectIdle

SaveCheckpoint ==
    /\ sm_ops < MaxOps
    /\ Len(saved) < MaxSaves
    /\ \E state \in held, label \in Labels, checkpoint_id \in UuidPrefixes :
          LET out == save_checkpoint(checkpoints, heap, state, label, checkpoint_id)
          IN  /\ checkpoints' = out.checkpoints
              /\ heap' = out.heap
              /\ sm_returned' = out.returned
              /\ sm_arg' = state
              /\ saved' = Append(saved, [checkpoint_id |-> out.returned,
                                         state |-> heap[state],
                                         label |-> label])
    /\ called' = "save_checkpoint" /\ raised' = ""
    /\ sm_ops' = sm_ops + 1
    /\ UNCHANGED <<held, listed, coreVars, reactVars, reflectVars>>

LoadCheckpoint ==
    /\ sm_ops < MaxOps
    /\ \E checkpoint_id \in LookupIds :
          LET out == load_checkpoint(checkpoints, heap, checkpoint_id)
          IN  /\ checkpoints' = out.checkpoints
              /\ heap' = out.heap
              /\ raised' = out.raised
              /\ sm_returned' = out.returned
              /\ sm_arg' = checkpoint_id
              /\ held' = IF out.raised = "" THEN held \cup {out.returned} ELSE held
    /\ called' = "load_checkpoint"
    /\ sm_ops' = sm_ops + 1
    /\ UNCHANGED <<listed, saved, coreVars, reactVars, reflectVars>>

RewindTo ==
    /\ sm_ops < MaxOps
    /\ \E checkpoint_id \in LookupIds :
          LET out == rewind_to(checkpoints, heap, checkpoint_id)
          IN  /\ checkpoints' = out.checkpoints
              /\ heap' = out.heap
              /\ raised' = out.raised
              /\ sm_returned' = out.returned
              /\ sm_arg' = checkpoint_id
              /\ held' = IF out.raised = "" THEN held \cup {out.returned} ELSE held
    /\ called' = "rewind_to"
    /\ sm_ops' = sm_ops + 1
    /\ UNCHANGED <<listed, saved, coreVars, reactVars, reflectVars>>

ListCheckpoints ==
    /\ sm_ops < MaxOps
    /\ listed' = list_checkpoints(checkpoints)
    /\ sm_returned' = listed'
    /\ sm_arg' = ""
    /\ called' = "list_checkpoints" /\ raised' = ""
    /\ sm_ops' = sm_ops + 1
    /\ UNCHANGED <<heap, checkpoints, held, saved,
                   coreVars, reactVars, reflectVars>>

\* The caller mutates a state it holds: state.steps.append(...) or state.status = ...
MutateHeld ==
    /\ sm_ops < MaxOps
    /\ \E a \in held :
          /\ \/ heap' = [heap EXCEPT ![a] = AppendStep(@, AgentStep1)]
             \/ heap' = [heap EXCEPT ![a] = SetStatus(@, "done")]
          /\ sm_arg' = a
    /\ called' = "mutate state" /\ raised' = ""
    /\ sm_returned' = ""
    /\ sm_ops' = sm_ops + 1
    /\ UNCHANGED <<checkpoints, held, listed, saved,
                   coreVars, reactVars, reflectVars>>

\* The caller mutates the state of a Checkpoint that list_checkpoints returned:
\* cp.state.steps.append(...) or cp.state.status = ...
MutateListed ==
    /\ sm_ops < MaxOps
    /\ \E i \in 1..Len(listed) :
          /\ \/ heap' = [heap EXCEPT ![listed[i].state] = AppendStep(@, AgentStep1)]
             \/ heap' = [heap EXCEPT ![listed[i].state] = SetStatus(@, "done")]
          /\ sm_arg' = listed[i].checkpoint_id
    /\ called' = "mutate listed" /\ raised' = ""
    /\ sm_returned' = ""
    /\ sm_ops' = sm_ops + 1
    /\ UNCHANGED <<checkpoints, held, listed, saved,
                   coreVars, reactVars, reflectVars>>

NextState ==
    \/ SaveCheckpoint \/ LoadCheckpoint \/ RewindTo \/ ListCheckpoints
    \/ MutateHeld \/ MutateListed

SpecState == InitState /\ [][NextState]_vars

----------------------------------------------------------------------------
(* run_react_loop, one step per pass of the for loop.  The model's response  *)
(* to an LLM call and the behaviour of the tool are chosen when the call is  *)
(* made.                                                                     *)

ReactQuestion == <<"q", "?">>

JsonText == <<"{", "}">>

Responses ==
    { \* not JSON, with blanks around it; and a message without content
      [content |-> <<" ", "n", "o", " ">>, json |-> JInvalid],
      [content |-> <<>>, json |-> JInvalid],
      \* {"thought": .., "action": "finish", "action_input": ..}
      [content |-> JsonText,
       json |-> JObject([thought |-> JString(<<"t">>), action |-> JString(Finish),
                         action_input |-> JString(<<"A">>)])],
      \* a call of the tool, and of a tool that is not in the map
      [content |-> JsonText,
       json |-> JObject([thought |-> JString(<<"t">>), action |-> JString(Retrieve),
                         action_input |-> JString(<<"x">>)])],
      [content |-> JsonText,
       json |-> JObject([thought |-> JString(<<"t">>), action |-> JString(Search),
                         action_input |-> JString(<<"x">>)])],
      \* an object without "action"
      [content |-> JsonText, json |-> JObject([thought |-> JString(<<"t">>)])],
      \* valid JSON that is not an object: [] (also 42, "text", null)
      [content |-> <<"[", "]">>, json |-> JArray(<<>>)],
      \* {"action": ["retrieve"], ..}: the action is a list
      [content |-> JsonText,
       json |-> JObject([thought |-> JString(<<"t">>), action |-> JArray(Retrieve),
                         action_input |-> JString(<<"x">>)])] }

\* the tool returns, or raises an Exception
ToolOutcomes == {"return", "Exception"}

SystemPrompt == <<"s", "y", "s">>

InitReact ==
    /\ called = "" /\ raised = ""
    /\ max_steps \in 0..MaxSteps
    /\ react_pc = "" /\ llm_calls = <<>> /\ react_steps = <<>> /\ messages = <<>>
    /\ react_result = NoResult
    /\ CoreIdle /\ StateIdle /\ ReflectIdle

\* messages = [system, user]; steps = []
ReactEnter ==
    /\ react_pc = ""
    /\ messages' = << Message("system", SystemPrompt), Message("user", ReactQuestion) >>
    /\ react_steps' = <<>>
    /\ react_pc' = "loop"
    /\ UNCHANGED <<called, raised, max_steps, llm_calls, react_result,
                   coreVars, stateVars, reflectVars>>

\* one pass of the loop body: the LLM call, the parse, the tool call
ReactStep ==
    /\ react_pc = "loop"
    /\ Len(llm_calls) < max_steps
    /\ \E response \in Responses, outcome \in ToolOutcomes :
          LET out == ReactIteration(ReactQuestion, messages, react_steps, response, outcome)
          IN  /\ llm_calls' = Append(llm_calls, [messages |-> messages, response |-> response,
                                              tool |-> outcome])
              /\ react_steps' = out.steps
              /\ messages' = out.messages
              /\ raised' = out.raised
              /\ react_result' = out.result
              /\ react_pc' = IF out.next = "continue" THEN "loop" ELSE "done"
              /\ called' = IF out.next = "continue" THEN called ELSE "run_react_loop"
    /\ UNCHANGED <<max_steps, coreVars, stateVars, reflectVars>>

\* range(max_steps) is used up
ReactLoopEnd ==
    /\ react_pc = "loop"
    /\ Len(llm_calls) >= max_steps
    /\ react_result' = ReactExhausted(ReactQuestion, react_steps)
    /\ react_pc' = "done"
    /\ called' = "run_react_loop"
    /\ UNCHANGED <<raised, max_steps, llm_calls, react_steps, messages,
                   coreVars, stateVars, reflectVars>>

NextReact == ReactEnter \/ ReactStep \/ ReactLoopEnd

\* the interpreter keeps running the call
SpecReact == InitReact /\ [][NextReact]_vars /\ WF_vars(NextReact)

----------------------------------------------------------------------------
(* run_reflection_loop, one step per call of worker_answer and of            *)
(* critic_review.  What the worker answers and what the critic model says    *)
(* are chosen when the call is made.                                         *)

WorkerAnswers == { <<"a", "1">>, <<"a", "2">> }

CriticResponses ==
    { \* {"approved": true, "feedback": ""} and {"approved": false, "feedback": "f"}
      JObject([approved |-> JBool(TRUE), feedback |-> JString(<<>>)]),
      JObject([approved |-> JBool(FALSE), feedback |-> JString(<<"f">>)]),
      \* {"feedback": "g"}: no verdict
      JObject([feedback |-> JString(<<"g">>)]),
      \* {"approved": "no", "feedback": "f"}: a verdict that is a non-empty string
      JObject([approved |-> JString(<<"n", "o">>), feedback |-> JString(<<"f">>)]),
      \* not JSON; and JSON that is not an object
      JInvalid,
      JArray(<<>>) }

InitReflect ==
    /\ called = "" /\ raised = ""
    /\ max_rounds \in 0..MaxRounds
    /\ refl_pc = "" /\ round_num = 0 /\ refl_answer = <<>> /\ refl_feedback = <<>>
    /\ history = <<>> /\ refl_calls = <<>> /\ refl_result = NoResult
    /\ CoreIdle /\ StateIdle /\ ReactIdle

\* history = []; feedback = ""; answer = ""; the loop is entered when
\* range(1, max_rounds + 1) is not empty
ReflectEnter ==
    /\ refl_pc = ""
    /\ history' = <<>> /\ refl_feedback' = <<>> /\ refl_answer' = <<>>
    /\ IF 1 <= max_rounds
       THEN refl_pc' = "worker" /\ round_num' = 1
       ELSE refl_pc' = "exit" /\ round_num' = 0
    /\ UNCHANGED <<called, raised, max_rounds, refl_calls, refl_result,
                   coreVars, stateVars, reactVars>>

\* answer = worker_answer(question, context, feedback=feedback)
WorkerStep ==
    /\ refl_pc = "worker"
    /\ \E a \in WorkerAnswers : refl_answer' = a
    /\ refl_calls' = Append(refl_calls, [fn |-> "worker_answer", round |-> round_num,
                                         arg |-> refl_feedback])
    /\ refl_pc' = "critic"
    /\ UNCHANGED <<called, raised, max_rounds, round_num, refl_feedback, history,
                   refl_result, coreVars, stateVars, reactVars>>

\* critique = critic_review(question, answer, context) and the rest of the body
CriticStep ==
    /\ refl_pc = "critic"
    /\ refl_calls' = Append(refl_calls, [fn |-> "critic_review", round |-> round_num,
                                         arg |-> refl_answer])
    /\ \E json \in CriticResponses :
          LET review == CriticParse(json)
              out == ReflectionRound(ReactQuestion, round_num, max_rounds, refl_answer,
                                     review.critique, history)
          IN  IF review.raised # ""
              THEN /\ raised' = review.raised
                   /\ refl_pc' = "done" /\ called' = "run_reflection_loop"
                   /\ UNCHANGED <<round_num, refl_feedback, history, refl_result>>
              ELSE /\ history' = out.history
                   /\ refl_feedback' = out.feedback
                   /\ refl_result' = out.result
                   /\ refl_pc' = out.next
                   /\ round_num' = IF out.next = "worker" THEN round_num + 1 ELSE round_num
                   /\ called' = IF out.next = "done" THEN "run_reflection_loop" ELSE called
                   /\ UNCHANGED raised
    /\ UNCHANGED <<max_rounds, refl_answer, coreVars, stateVars, reactVars>>

\* the return after the loop
ReflectExit ==
    /\ refl_pc = "exit"
    /\ refl_result' = ReflectionResult(ReactQuestion, refl_answer, max_rounds, history)
    /\ refl_pc' = "done"
    /\ called' = "run_reflection_loop"
    /\ UNCHANGED <<raised, max_rounds, round_num, refl_answer, refl_feedback, history,
                   refl_calls, coreVars, stateVars, reactVars>>

NextReflect == ReflectEnter \/ WorkerStep \/ CriticStep \/ ReflectExit

SpecReflect == InitReflect /\ [][NextReflect]_vars /\ WF_vars(NextReflect)

----------------------------------------------------------------------------
(* The whole package: any one component used by a run *)

Init ==
    \/ InitChunk \/ InitBM25 \/ InitRRF \/ InitRerank
    \/ InitRank \/ InitGround \/ InitSummarize \/ InitEvalSingle \/ InitConc
    \/ InitLongChunk \/ InitHybrid \/ InitState \/ InitReact \/ InitReflect

Next ==
    \/ NextChunk \/ NextBM25 \/ NextRRF \/ NextRerank
    \/ NextRank \/ NextGround \/ NextSummarize \/ NextEvalSingle \/ NextConc
    \/ NextLongChunk \/ NextHybrid \/ NextState \/ NextReact \/ NextReflect

Spec == Init /\ [][Next]_vars

----------------------------------------------------------------------------
(* Claims about chunking, checked under SpecChunk *)

DocIdsOf(docs) == {docs[i].doc_id : i \in 1..Len(docs)}

ChunkIdsOf(cs) == [i \in 1..Len(cs) |-> cs[i].chunk_id]

\* C1: after fixed_chunk_documents, for every doc_id of the input the texts of
\* the chunks emitted for it, concatenated in emission order, are exactly the
\* text of the document(s) carrying that doc_id, and the chunk texts of the
\* whole call concatenate to the texts of all documents in input order: no
\* character is lost, duplicated or reordered, for every chunk_size >= 1.
C1_FixedRoundTrip ==
    called = "fixed_chunk_documents" =>
        /\ ConcatTexts(chunks) = ConcatTexts(documents)
        /\ \A id \in DocIdsOf(documents) :
              ConcatTexts(SelectSeq(chunks, LAMBDA c : c.doc_id = id))
                = ConcatTexts(SelectSeq(documents, LAMBDA d : d.doc_id = id))
        /\ \A i \in 1..Len(chunks) : chunks[i].doc_id \in DocIdsOf(documents)

\* A call over two documents of different doc_id, one of them cut into several
\* chunks with a shorter last chunk.
C1_Witness ==
    /\ called = "fixed_chunk_documents"
    /\ Len(documents) = 2
    /\ documents[1].doc_id # documents[2].doc_id
    /\ Len(documents[1].text) > chunk_size
    /\ Len(documents[1].text) % chunk_size # 0
    /\ chunk_size > 1
    /\ documents[2].text # <<>>

\* C2: the chunk_ids returned by one call of fixed_chunk_documents or of
\* semantic_chunk_documents are pairwise distinct, for any list of documents.
C2_ChunkIdsDistinct ==
    called \in {"fixed_chunk_documents", "semantic_chunk_documents"} =>
        NoDuplicates(ChunkIdsOf(chunks))

----------------------------------------------------------------------------
(* Claims about Reciprocal Rank Fusion, checked under SpecRRF *)

Fused == called = "reciprocal_rank_fusion"

\* positions (1-indexed ranks) at which chunk_id c occurs in a ranked list
RanksOf(list, c) == {p \in 1..Len(list) : list[p].chunk_id = c}

IdsOf(list) == {list[p].chunk_id : p \in 1..Len(list)}

RepeatsNoId(list) == \A p, q \in 1..Len(list) : list[p].chunk_id = list[q].chunk_id => p = q

\* den / (k + p), exact when (k + p) divides den
Over(den, p) == den \div (k + p)

RECURSIVE SumRanks(_, _)
SumRanks(den, P) ==
    IF P = {} THEN 0
    ELSE LET p == CHOOSE q \in P : TRUE IN Over(den, p) + SumRanks(den, P \ {p})

\* the contributions a list can make to c when c has one rank in it
OneRankContributions(den, list, c) ==
    IF RanksOf(list, c) = {} THEN {0} ELSE {Over(den, p) : p \in RanksOf(list, c)}

FirstInBoth(c) ==
    /\ dense_results # <<>> /\ dense_results[1].chunk_id = c
    /\ keyword_results # <<>> /\ keyword_results[1].chunk_id = c

\* C3 as stated: the fused score of a chunk_id is 1/(k+rank) from the dense
\* list plus 1/(k+rank) from the keyword list, rank being the chunk's position
\* in that list (0 from a list without it), and with k = 60 a chunk ranked
\* first in both lists scores exactly 2/61.
C3_ScoreIsSumOverLists ==
    Fused =>
        \A i \in 1..Len(fused) :
            LET r == fused[i] IN
            /\ r.score.den > 0
            /\ \A p \in 1..Len(dense_results) \cup 1..Len(keyword_results) :
                  r.score.den % (k + p) = 0
            /\ \E cd \in OneRankContributions(r.score.den, dense_results, r.chunk_id),
                  ck \in OneRankContributions(r.score.den, keyword_results, r.chunk_id) :
                  r.score.num = cd + ck
            /\ (k = 60 /\ FirstInBoth(r.chunk_id)) => r.score.num * 61 = 2 * r.score.den

\* C3 amended: the fused score of a chunk_id is the sum of 1/(k+p) over every
\* position p of the dense list and every position p of the keyword list that
\* holds the chunk_id (0 from a list without it); with k = 60 a chunk that is
\* first in both lists and occurs nowhere else scores exactly 2/61.
C3_ScoreIsSumOverOccurrences ==
    Fused =>
        \A i \in 1..Len(fused) :
            LET r == fused[i] IN
            /\ r.score.den > 0
            /\ \A p \in 1..Len(dense_results) \cup 1..Len(keyword_results) :
                  r.score.den % (k + p) = 0
            /\ r.score.num = SumRanks(r.score.den, RanksOf(dense_results, r.chunk_id))
                             + SumRanks(r.score.den, RanksOf(keyword_results, r.chunk_id))
            /\ ( /\ k = 60
                 /\ RanksOf(dense_results, r.chunk_id) = {1}
                 /\ RanksOf(keyword_results, r.chunk_id) = {1} )
               => r.score.num * 61 = 2 * r.score.den

\* k = 60, one chunk first in both lists and nowhere else, another chunk
\* repeated within a list, a third in one list only.
C3_Witness ==
    /\ Fused
    /\ k = 60
    /\ \E c \in IdsOf(dense_results) :
          RanksOf(dense_results, c) = {1} /\ RanksOf(keyword_results, c) = {1}
    /\ \E c \in IdsOf(dense_results) : Cardinality(RanksOf(dense_results, c)) > 1
    /\ \E c \in IdsOf(keyword_results) : RanksOf(dense_results, c) = {}

\* C4: the output of reciprocal_rank_fusion holds every chunk_id of the dense
\* or the keyword list exactly once and no other, every result is tagged
\* "hybrid", and nothing is cut: the output is as long as the number of
\* distinct chunk_ids of the two inputs (either of which may be empty).
C4_FusedIsUnion ==
    Fused =>
        /\ IdsOf(fused) = IdsOf(dense_results) \cup IdsOf(keyword_results)
        /\ RepeatsNoId(fused)
        /\ Len(fused) = Cardinality(IdsOf(dense_results) \cup IdsOf(keyword_results))
        /\ \A i \in 1..Len(fused) : fused[i].source = "hybrid"

\* The lists overlap in one chunk_id, each holds a chunk_id the other lacks,
\* and one chunk_id is repeated.
C4_Witness ==
    /\ Fused
    /\ IdsOf(dense_results) \cap IdsOf(keyword_results) # {}
    /\ IdsOf(dense_results) \ IdsOf(keyword_results) # {}
    /\ Len(dense_results) + Len(keyword_results) > Len(fused) + 1
    /\ Len(fused) = 2

\* chunk_ids that occur in exactly one of the two lists
InOneListOnly ==
    (IdsOf(dense_results) \cup IdsOf(keyword_results))
        \ (IdsOf(dense_results) \cap IdsOf(keyword_results))

\* C5 as stated: for k > 0 and any two lists, a chunk at rank 1 in both lists
\* is placed first in the output, with a score strictly above that of every
\* chunk that appears in only one of the lists.
C5_FirstInBothIsFirst ==
    (Fused /\ k > 0) =>
        \A c \in ChunkIds :
            FirstInBoth(c) =>
                /\ fused[1].chunk_id = c
                /\ \A i \in 1..Len(fused) :
                      fused[i].chunk_id \in InOneListOnly
                          => fused[i].score.num < fused[1].score.num

\* C5 amended: for k > 0 and two lists neither of which repeats a chunk_id, a
\* chunk at rank 1 in both lists scores exactly 2/(k+1), every other chunk
\* (in one list or in both) scores strictly less, so it is placed first; and
\* a chunk that is at rank 1 in only one of the lists scores strictly less
\* than 2/(k+1).
C5_FirstInBothIsFirstNoRepeats ==
    (Fused /\ k > 0 /\ RepeatsNoId(dense_results) /\ RepeatsNoId(keyword_results)) =>
        /\ \A c \in ChunkIds :
              FirstInBoth(c) =>
                  /\ fused[1].chunk_id = c
                  /\ fused[1].score.num * (k + 1) = 2 * fused[1].score.den
                  /\ \A i \in 2..Len(fused) : fused[i].score.num < fused[1].score.num
        /\ \A i \in 1..Len(fused) :
              ( /\ ~FirstInBoth(fused[i].chunk_id)
                /\ 1 \in RanksOf(dense_results, fused[i].chunk_id)
                            \cup RanksOf(keyword_results, fused[i].chunk_id) )
              => fused[i].score.num * (k + 1) < 2 * fused[i].score.den

\* No repeats, one chunk first in both lists, a second chunk in both lists and
\* a third in one list only.
C5_Witness ==
    /\ Fused
    /\ RepeatsNoId(dense_results) /\ RepeatsNoId(keyword_results)
    /\ \E c \in ChunkIds : FirstInBoth(c)
    /\ Cardinality(IdsOf(dense_results) \cap IdsOf(keyword_results)) = 2
    /\ InOneListOnly # {}
    /\ fused[1].score.num * (k + 1) = 2 * fused[1].score.den

\* 1-indexed position at which chunk_id c is first seen, the dense list being
\* scanned before the keyword list
FirstSeen(c) ==
    LET all == dense_results \o keyword_results
    IN  CHOOSE p \in 1..Len(all) :
            /\ all[p].chunk_id = c
            /\ \A q \in 1..(p - 1) : all[q].chunk_id # c

\* C6: the output of reciprocal_rank_fusion is ordered by fused score,
\* non-increasing, and chunks of equal fused score appear in the order in
\* which their chunk_ids were first seen (dense list first, then keyword list).
C6_FusedOrder ==
    Fused =>
        \A i, j \in 1..Len(fused) :
            i < j =>
                /\ fused[i].score.num >= fused[j].score.num
                /\ fused[i].score.den = fused[j].score.den
                /\ fused[i].score.num = fused[j].score.num
                      => FirstSeen(fused[i].chunk_id) < FirstSeen(fused[j].chunk_id)

\* Two chunks tie, the one first seen later in the dense list being first in
\* the keyword list, and a third chunk scores less.
C6_Witness ==
    /\ Fused
    /\ Len(fused) = 3
    /\ fused[1].score.num = fused[2].score.num
    /\ fused[2].score.num > fused[3].score.num
    /\ keyword_results # <<>>
    /\ keyword_results[1].chunk_id = fused[2].chunk_id

----------------------------------------------------------------------------
(* Claims about the keyword index, checked under SpecBM25 *)

Searched == called = "bm25_search"

\* index position of a result: the chunk_ids of the indexed lists name it
PositionOf(r) == CHOOSE p \in 1..Len(chunk_ids) : chunk_ids[p] = r.chunk_id

\* C7: over an index built on n chunks and for top_k >= 0, bm25_search returns
\* exactly min(top_k, n) results, of pairwise different index positions,
\* ordered by BM25 score non-increasing with equal scores in index order; no
\* chunk left out outranks a returned one; every result is tagged "keyword",
\* carries the score get_scores gave its position and the chunk_id and text
\* of that same position.
C7_SearchTopK ==
    Searched =>
        LET n == Len(bm_chunks)
            scores == GetScores(index, Tokenize(query))
            returned == {PositionOf(results[i]) : i \in 1..Len(results)}
        IN  /\ index.corpus_size = n
            /\ Len(results) = Min(top_k, n)
            /\ \A i \in 1..Len(results) :
                  /\ results[i].source = "keyword"
                  /\ results[i].chunk_id \in Range(chunk_ids)
                  /\ results[i].chunk_id = bm_chunks[PositionOf(results[i])].chunk_id
                  /\ results[i].text = bm_chunks[PositionOf(results[i])].text
                  /\ results[i].score = scores[PositionOf(results[i])]
            /\ \A i, j \in 1..Len(results) :
                  i < j =>
                      /\ results[i].score >= results[j].score
                      /\ results[i].score = results[j].score
                            => PositionOf(results[i]) < PositionOf(results[j])
            /\ \A p \in (1..n) \ returned :
                  \A i \in 1..Len(results) :
                      \/ scores[p] < results[i].score
                      \/ scores[p] = results[i].score /\ PositionOf(results[i]) < p

\* A search that cuts (0 < top_k < n): the best chunk is not the first indexed,
\* and the chunk left out has the score of the last one returned.
C7_Witness ==
    /\ Searched
    /\ Len(bm_chunks) = 3
    /\ top_k = 2
    /\ Len(results) = 2
    /\ results[1].score > results[2].score
    /\ results[1].chunk_id # chunk_ids[1]
    /\ \E p \in 1..Len(chunk_ids) :
          /\ chunk_ids[p] # results[1].chunk_id
          /\ chunk_ids[p] # results[2].chunk_id
          /\ GetScores(index, Tokenize(query))[p] = results[2].score

NoTokens(text) == Tokenize(text) = <<>>

\* C8: the keyword index never raises on empty input: build_bm25 over an empty
\* chunk list, or over chunks none of which has a token, returns an index and
\* a search of it returns the empty list; a search of a non-empty index with a
\* query without tokens returns results whose scores are all zero.
C8_KeywordIndexNeverRaises ==
    /\ called = "build_bm25" => (raised = "" /\ index # NoIndex)
    /\ ( /\ Searched
         /\ \A i \in 1..Len(bm_chunks) : NoTokens(bm_chunks[i].text) )
       => results = <<>>
    /\ (Searched /\ NoTokens(query)) =>
          \A i \in 1..Len(results) : results[i].score = 0

\* The part of C8 the code keeps: a query without tokens gives every chunk of
\* a built index the score zero, in index order.
C8_EmptyQueryScoresZero ==
    (Searched /\ NoTokens(query)) =>
        /\ Len(results) = Min(top_k, Len(bm_chunks))
        /\ \A i \in 1..Len(results) :
              results[i].score = 0 /\ results[i].chunk_id = chunk_ids[i]

----------------------------------------------------------------------------
(* Claims about reranking, checked under SpecRerank *)

Reranked == called = "rerank"

\* f maps output positions to pairwise different input positions
Injections(m, n) == {f \in [1..m -> 1..n] : \A a, b \in 1..m : f[a] = f[b] => a = b}

\* C9: for a non-empty candidate list and top_k >= 0, rerank returns
\* min(top_k, n) results ordered by model score non-increasing; each is tagged
\* "reranked" and carries the chunk_id and text of one input candidate of its
\* own, with the score the model gave that candidate's pair (not the
\* first-pass score); no candidate left out has a higher model score.
C9_RerankOrder ==
    (Reranked /\ candidates # <<>>) =>
        LET n == Len(candidates)
            m == Len(ranked)
        IN  /\ m = Min(top_k, n)
            /\ Len(predict_scores) = n
            /\ \A i \in 1..m : ranked[i].source = "reranked"
            /\ \A i, j \in 1..m : i < j => ranked[i].score >= ranked[j].score
            /\ \E f \in Injections(m, n) :
                  /\ \A i \in 1..m :
                        /\ ranked[i].chunk_id = candidates[f[i]].chunk_id
                        /\ ranked[i].text = candidates[f[i]].text
                        /\ ranked[i].score = predict_scores[f[i]]
                  /\ \A c \in (1..n) \ {f[i] : i \in 1..m} :
                        \A i \in 1..m : predict_scores[c] <= ranked[i].score

\* Three different candidates, the model ranks them against their input order
\* and against their first-pass scores, and top_k cuts one.
C9_Witness ==
    /\ Reranked
    /\ Len(candidates) = 3
    /\ top_k = 2
    /\ Len(ranked) = 2
    /\ ranked[1].chunk_id = candidates[2].chunk_id
    /\ ranked[2].chunk_id = candidates[3].chunk_id
    /\ ranked[1].score > ranked[2].score
    /\ ranked[2].score > predict_scores[1]
    /\ ranked[1].score # candidates[2].score
    /\ candidates[1].chunk_id # candidates[2].chunk_id
    /\ candidates[2].chunk_id # candidates[3].chunk_id
    /\ candidates[1].chunk_id # candidates[3].chunk_id

\* C10: rerank on an empty candidate list returns the empty list and never
\* calls the cross-encoder; on a non-empty list it calls the cross-encoder
\* exactly once, with one (query, candidate text) pair per candidate, in
\* input order.
C10_ModelCalls ==
    Reranked =>
        /\ candidates = <<>> => (ranked = <<>> /\ predict_calls = <<>>)
        /\ candidates # <<>> =>
              /\ Len(predict_calls) = 1
              /\ Len(predict_calls[1]) = Len(candidates)
              /\ \A i \in 1..Len(candidates) :
                    predict_calls[1][i] = <<query, candidates[i].text>>

\* rerank has returned for an empty candidate list.
C10_Witness ==
    /\ Reranked
    /\ candidates = <<>>
    /\ top_k > 0
    /\ ranked = <<>>

----------------------------------------------------------------------------
(* Claims about the ranking metrics, checked under SpecRank *)

\* sub is a substring of s: it lies in s at some offset
IsSubstring(sub, s) ==
    \E off \in 0..(Len(s) - Len(sub)) : \A j \in 1..Len(sub) : s[off + j] = sub[j]

\* 1-indexed ranks of the results whose chunk_id contains target_doc_id
HitRanks == {i \in 1..Len(ev_results) : IsSubstring(target_doc_id, ev_results[i].chunk_id)}

FirstHitRank == CHOOSE r \in HitRanks : \A q \in HitRanks : r <= q

\* C11: recall_at_k returns 1.0 exactly when target_doc_id is a substring of
\* the chunk_id of one of the first k results and 0.0 otherwise; when the first
\* matching result is at rank c + 1, the value is 0.0 at cutoff c and 1.0 at
\* cutoff c + 1, for every c >= 0.
C11_RecallCutoff ==
    called = "recall_at_k" =>
        /\ metric = IF \E r \in HitRanks : r <= recall_k THEN One ELSE Zero
        /\ HitRanks # {} =>
              /\ recall_at_k(ev_results, target_doc_id, FirstHitRank - 1) = Zero
              /\ recall_at_k(ev_results, target_doc_id, FirstHitRank) = One
              /\ FirstHitRank = recall_k + 1 => metric = Zero
              /\ FirstHitRank = recall_k => metric = One

\* recall_at_k returned 0.0 at a cutoff k >= 1 for a list whose first match is
\* at rank k + 1.
C11_Witness ==
    /\ called = "recall_at_k"
    /\ recall_k >= 1
    /\ HitRanks # {}
    /\ FirstHitRank = recall_k + 1
    /\ metric = Zero

\* C12: reciprocal_rank returns exactly 1/r, r the 1-indexed position of the
\* first result of the whole list (no cutoff) whose chunk_id contains
\* target_doc_id, and 0.0 when no result of the list matches or the list is
\* empty.
C12_ReciprocalRankExact ==
    called = "reciprocal_rank" =>
        IF HitRanks = {}
        THEN metric = Zero
        ELSE metric.num = 1 /\ metric.den = FirstHitRank

\* The first match is the last of three results, and a later cutoff-free
\* position is what the value names: 1/3.
C12_Witness ==
    /\ called = "reciprocal_rank"
    /\ Len(ev_results) = 3
    /\ HitRanks = {3}
    /\ metric = Rational(1, 3)

----------------------------------------------------------------------------
(* Claims about groundedness, checked under SpecGround *)

Grounded == called = "groundedness_score"

\* answer tokens that occur in some context
GroundedTokens ==
    {t \in normalize(answer) : \E i \in 1..Len(contexts) : t \in normalize(contexts[i])}

\* C13: for every answer and every list of contexts, groundedness_score
\* returns a value in [0,1] equal to |answer tokens occurring in some context|
\* / |answer tokens|; 0.0 when the answer has no tokens, when the context list
\* is empty and when answer and contexts share no token; the division never
\* has a zero divisor.
C13_GroundednessRatio ==
    Grounded =>
        /\ metric.den > 0
        /\ 0 <= metric.num /\ metric.num <= metric.den
        /\ metric.num * Cardinality(normalize(answer))
              = metric.den * Cardinality(GroundedTokens)
        /\ normalize(answer) = {} => metric.num = 0
        /\ contexts = <<>> => metric.num = 0
        /\ GroundedTokens = {} => metric.num = 0

\* An answer of two tokens, one of them found in the second of two contexts.
C13_Witness ==
    /\ Grounded
    /\ Len(contexts) = 2
    /\ Cardinality(normalize(answer)) = 2
    /\ normalize(answer) \cap normalize(contexts[1]) = {}
    /\ Cardinality(GroundedTokens) = 1
    /\ metric = Rational(1, 2)

\* C14 as stated: for any text t, groundedness_score(t, [t]) is 1.0.
C14_IdenticalTextIsOne ==
    (Grounded /\ contexts = <<answer>>) => metric.num = metric.den

\* C14 amended: for any text t with at least one token of [a-zA-Z0-9-],
\* groundedness_score(t, [t]) is 1.0; for a text without such a token (the
\* empty text, punctuation, whitespace) it is 0.0.
C14_IdenticalTextWithTokensIsOne ==
    (Grounded /\ contexts = <<answer>>) =>
        /\ metric.den > 0
        /\ normalize(answer) # {} => metric.num = metric.den
        /\ normalize(answer) = {} => metric.num = 0

\* The one context is the answer itself, a text of two tokens with an upper
\* case letter and a hyphen.
C14_Witness ==
    /\ Grounded
    /\ contexts = <<answer>>
    /\ Cardinality(normalize(answer)) = 2
    /\ \E i \in 1..Len(answer) : answer[i] = "A"
    /\ metric = Rational(2, 2)

----------------------------------------------------------------------------
(* Claims about evaluate_single, checked under SpecEvalSingle *)

EvaluatedSingle == called = "evaluate_single"

RetrievalCalls == SelectSeq(fn_calls, LAMBDA c : c.fn = "retrieval_fn")

\* C15: evaluate_single first calls the retrieval function with the top_k
\* keyword; only a call-signature mismatch is caught, once, and retried as a
\* call with the question alone; any other exception raised by the retrieval
\* function (on either call) or by the answer function leaves evaluate_single
\* and no EvalRow is returned.
C15_OnlySignatureMismatchCaught ==
    EvaluatedSingle =>
        /\ fn_calls[1].fn = "retrieval_fn" /\ fn_calls[1].kwargs = {"top_k"}
        /\ Len(RetrievalCalls) <= 2
        /\ Len(RetrievalCalls) = 2
              <=> (fn_calls[1].raised = "TypeError" /\ fn_calls[1].cause = "signature")
        /\ Len(RetrievalCalls) = 2 => fn_calls[2].kwargs = {}
        /\ \A i \in 1..Len(fn_calls) :
              ( /\ fn_calls[i].raised # ""
                /\ ~(i = 1 /\ fn_calls[i].cause = "signature") )
              => (raised = fn_calls[i].raised /\ row = NoRow)

----------------------------------------------------------------------------
(* Claims about summarize, checked under SpecSummarize *)

Summarized == called = "summarize"

MetricFields == {"recall_at_k", "mrr", "latency_ms", "groundedness"}

UnitFields == {"recall_at_k", "mrr", "groundedness"}

FieldValues(f) == [i \in 1..Len(rows) |-> rows[i][f]]

RECURSIVE DenProduct(_)
DenProduct(values) == IF values = <<>> THEN 1 ELSE Head(values).den * DenProduct(Tail(values))

\* the sum of the values, as a numerator over the denominator P
RECURSIVE NumeratorSum(_, _)
NumeratorSum(values, P) ==
    IF values = <<>> THEN 0
    ELSE Head(values).num * (P \div Head(values).den) + NumeratorSum(Tail(values), P)

\* m is the arithmetic mean of a non-empty sequence of rationals
IsMeanOf(m, values) ==
    LET P == DenProduct(values)
    IN  /\ m.den > 0
        /\ m.num * P * Len(values) = m.den * NumeratorSum(values, P)

InUnitInterval(v) == v.den > 0 /\ 0 <= v.num /\ v.num <= v.den

\* C16: summarize returns, for each of recall_at_k, mrr, latency_ms and
\* groundedness, the arithmetic mean of that field over all rows; for an empty
\* row list it returns 0.0 for all four without dividing by zero; when every
\* row's recall_at_k, mrr and groundedness lies in [0,1] so does each mean.
C16_SummarizeMeans ==
    Summarized =>
        /\ DOMAIN summary = MetricFields
        /\ \A f \in MetricFields : summary[f].den > 0
        /\ rows = <<>> => \A f \in MetricFields : summary[f].num = 0
        /\ rows # <<>> => \A f \in MetricFields : IsMeanOf(summary[f], FieldValues(f))
        /\ (\A i \in 1..Len(rows) : \A f \in UnitFields : InUnitInterval(rows[i][f]))
              => \A f \in UnitFields : InUnitInterval(summary[f])

\* Three rows within [0,1] whose mrr values 1, 1/3 and 1/2 have the mean
\* 11/18, and whose latencies are not all equal.
C16_Witness ==
    /\ Summarized
    /\ Len(rows) = 3
    /\ \A i \in 1..Len(rows) : \A f \in UnitFields : InUnitInterval(rows[i][f])
    /\ summary.mrr.num * 18 = summary.mrr.den * 11
    /\ summary.latency_ms.num * 3 = summary.latency_ms.den * 200

----------------------------------------------------------------------------
(* More claims about chunking, checked under SpecChunk *)

SemanticChunked == called = "semantic_chunk_documents"

FixedChunked == called = "fixed_chunk_documents"

\* the sentence-like units of a text: the pieces between ". ", trimmed, the
\* empty ones dropped
Units(text) == SentenceLikeParts(text)

DotSpace == <<".", " ">>

\* what C17 says one document yields
SemanticChunksExpected(document) ==
    LET u == Units(document.text)
        id0 == document.doc_id \o <<"-", "S", "E", "M", "-", "0", "0">>
        id1 == document.doc_id \o <<"-", "S", "E", "M", "-", "0", "1">>
    IN  IF Len(u) <= 2
        THEN <<[chunk_id |-> id0, doc_id |-> document.doc_id, section |-> document.section,
                text |-> Join(u, DotSpace)]>>
        ELSE <<[chunk_id |-> id0, doc_id |-> document.doc_id, section |-> document.section,
                text |-> u[1] \o DotSpace \o u[2]],
               [chunk_id |-> id1, doc_id |-> document.doc_id, section |-> document.section,
                text |-> Join(SubSeq(u, 3, Len(u)), DotSpace)]>>

\* C17: semantic_chunk_documents, for each document in input order, splits the
\* text at ". ", trims the pieces and drops the empty ones (so the pieces joined
\* by ". " give back the text, and no unit is empty, starts or ends with a
\* blank); with at most 2 units it emits exactly one chunk holding all units
\* joined by ". ", with more than 2 units exactly two chunks, the first holding
\* the first two units joined and the second all remaining units joined, with
\* ids suffixed SEM-00 and SEM-01 and doc_id and section copied unchanged.
C17_SemanticGroups ==
    SemanticChunked =>
        /\ chunks = Flatten([d \in 1..Len(documents) |-> SemanticChunksExpected(documents[d])])
        /\ \A d \in 1..Len(documents) :
              LET text == documents[d].text
                  u == Units(text)
              IN  /\ Join(Split(text, DotSpace), DotSpace) = text
                  /\ Len(u) <= Len(Split(text, DotSpace))
                  /\ \A i \in 1..Len(u) :
                        /\ u[i] # <<>>
                        /\ u[i][1] # " " /\ u[i][Len(u[i])] # " "
                        /\ IsSubstring(u[i], text)

\* One document of four units, the last keeping its final ".", and one whose
\* text has blank pieces around a single unit: three chunks in all.
C17_Witness ==
    /\ SemanticChunked
    /\ Len(documents) = 2
    /\ Len(Units(documents[1].text)) = 4
    /\ Len(Units(documents[2].text)) = 1
    /\ Len(Split(documents[2].text, DotSpace)) = 3
    /\ Len(chunks) = 3
    /\ chunks[2].text = <<"c", ".", " ", "d", ".">>

\* C18 as stated: every chunk returned by semantic_chunk_documents has
\* non-empty text, for any list of input documents.
C18_SemanticTextNonEmpty ==
    SemanticChunked => \A i \in 1..Len(chunks) : chunks[i].text # <<>>

\* C18 amended: a document whose text has at least one non-blank sentence unit
\* yields only chunks of non-empty text; a document whose text has none (the
\* empty text, blanks, or only ". " separators and blanks) yields exactly one
\* chunk, whose text is empty.
C18_SemanticTextNonEmptyWithUnits ==
    SemanticChunked =>
        /\ (\A d \in 1..Len(documents) : Units(documents[d].text) # <<>>)
              => \A i \in 1..Len(chunks) : chunks[i].text # <<>>
        /\ Cardinality({i \in 1..Len(chunks) : chunks[i].text = <<>>})
              = Cardinality({d \in 1..Len(documents) : Units(documents[d].text) = <<>>})
        /\ \A i \in 1..Len(chunks) :
              chunks[i].text = <<>> => chunks[i].chunk_id = chunks[i].doc_id \o SemTag \o <<"0", "0">>

\* Two documents with units, one of them with blank pieces that are dropped:
\* all chunks have text.
C18_Witness ==
    /\ SemanticChunked
    /\ Len(documents) = 2
    /\ \A d \in 1..Len(documents) : Units(documents[d].text) # <<>>
    /\ \E d \in 1..Len(documents) :
          Len(Units(documents[d].text)) < Len(Split(documents[d].text, DotSpace))
    /\ \E d \in 1..Len(documents) : Len(Units(documents[d].text)) > 2
    /\ \A i \in 1..Len(chunks) : chunks[i].text # <<>>

\* ceil(n / size)
Ceil(n, size) == (n + size - 1) \div size

\* chunks the first d documents yield together
RECURSIVE ChunkCountUpTo(_)
ChunkCountUpTo(d) ==
    IF d = 0 THEN 0
    ELSE ChunkCountUpTo(d - 1) + Ceil(Len(documents[d].text), chunk_size)

\* C19: for every document and chunk_size >= 1, fixed_chunk_documents emits
\* exactly ceil(len(text)/chunk_size) chunks for that document, in input
\* order: none for a zero-length text; every chunk is non-empty and at most
\* chunk_size characters long, and every chunk except possibly the last of its
\* document is exactly chunk_size characters long.
C19_FixedChunkCount ==
    FixedChunked =>
        /\ Len(chunks) = ChunkCountUpTo(Len(documents))
        /\ \A d \in 1..Len(documents) :
              \A i \in (ChunkCountUpTo(d - 1) + 1)..ChunkCountUpTo(d) :
                  /\ chunks[i].doc_id = documents[d].doc_id
                  /\ chunks[i].text # <<>>
                  /\ Len(chunks[i].text) <= chunk_size
                  /\ i < ChunkCountUpTo(d) => Len(chunks[i].text) = chunk_size
        /\ \A d \in 1..Len(documents) :
              documents[d].text = <<>> => ChunkCountUpTo(d) = ChunkCountUpTo(d - 1)

\* chunk_size 2: a text of 5 characters gives 3 chunks, the last one short; a
\* text of 4 characters gives 2 full chunks.
C19_Witness ==
    /\ FixedChunked
    /\ chunk_size = 2
    /\ Len(documents) = 2
    /\ Len(documents[1].text) = 5
    /\ Len(documents[2].text) = 4
    /\ Len(chunks) = 5
    /\ Len(chunks[3].text) = 1
    /\ Len(chunks[5].text) = 2

----------------------------------------------------------------------------
(* Claims about concurrent use, checked under SpecConc *)

Started(t) == threads[t].pc # "idle"

Done(t) == threads[t].pc = "done"

\* C20: under any interleaving of concurrent bm25_search calls that share one
\* built index, and of reciprocal_rank_fusion, recall_at_k, reciprocal_rank
\* and groundedness_score calls that share input lists, every call returns
\* what it returns when run alone on the objects it was given, and the shared
\* objects stay as every call received them: no call changes its arguments.
C20_ConcurrentCallsAsAlone ==
    \A t \in 1..Len(threads) :
        /\ Started(t) => shared = threads[t].given
        /\ Done(t) => threads[t].result = Alone(threads[t])

\* Two calls on the same result list have both returned, their steps taken in
\* any order: a recall_at_k that took its window and a reciprocal_rank whose first
\* match lies behind that window.
C20_Witness ==
    /\ Len(threads) >= 2
    /\ Done(1) /\ Done(2)
    /\ threads[1].call.op = "recall_at_k"
    /\ threads[1].call.cutoff = 1
    /\ threads[2].call.op = "reciprocal_rank"
    /\ threads[2].result = Rational(1, 3)
    /\ threads[1].result = Zero

----------------------------------------------------------------------------
(* Claims about the StateManager, checked under SpecState *)

Loaded == called \in {"load_checkpoint", "rewind_to"} /\ raised = ""

\* the save_checkpoint calls that returned checkpoint_id
SavesOf(checkpoint_id) == {i \in 1..Len(saved) : saved[i].checkpoint_id = checkpoint_id}

\* C21: a stored checkpoint is an immutable snapshot: when load_checkpoint(cid)
\* or rewind_to(cid) returns, for a cid that one save_checkpoint call returned,
\* the returned state equals the state as it was when it was saved, whatever
\* the caller mutated in between (the original state, a loaded state, or a
\* Checkpoint that list_checkpoints returned).
C21_SnapshotImmutable ==
    Loaded => \A i \in SavesOf(sm_arg) :
                  SavesOf(sm_arg) = {i} => heap[sm_returned] = saved[i].state

\* a step that is one call of load_checkpoint or rewind_to
LookupStep == sm_ops' = sm_ops + 1 /\ called' \in {"load_checkpoint", "rewind_to"}

SavedIds == {saved[i].checkpoint_id : i \in 1..Len(saved)}

Ascending(cps) ==
    \A i, j \in 1..Len(cps) : i < j => cps[i].step_number <= cps[j].step_number

\* C30: every save_checkpoint adds a checkpoint and replaces none: after n
\* calls list_checkpoints returns n checkpoints in ascending step_number
\* order, the n returned ids are pairwise distinct, and every id loads the
\* state that was saved under it.
C30_EverySaveAddsACheckpoint ==
    /\ Len(list_checkpoints(checkpoints)) = Len(saved)
    /\ Ascending(list_checkpoints(checkpoints))
    /\ \A i, j \in 1..Len(saved) :
          saved[i].checkpoint_id = saved[j].checkpoint_id => i = j
    /\ \A i \in 1..Len(saved) :
          LET out == load_checkpoint(checkpoints, heap, saved[i].checkpoint_id)
          IN  out.raised = "" /\ out.heap[out.returned] = saved[i].state

----------------------------------------------------------------------------
(* Claims about run_react_loop, checked under SpecReact *)

ReactDone == react_pc = "done"

\* the response the last LLM call received
LastResponse == llm_calls[Len(llm_calls)].response

FinishedBy(response) ==
    /\ response.json.type = "object"
    /\ DictGet(response.json, "action", JString(Finish)) = JString(Finish)

\* C23: run_react_loop ends for any sequence of model responses having made
\* at most max_steps LLM calls, and returns an AgentResult with at most
\* max_steps steps: after a 'finish' response the answer is that response's
\* action_input and the steps are the tool steps made before it; when the
\* model never finishes it returns after max_steps steps with the last
\* step's observation as answer.
C23_ReactReturnsAgentResult ==
    /\ Len(llm_calls) <= max_steps
    /\ ReactDone =>
          /\ raised = ""
          /\ react_result # NoResult
          /\ react_result.steps = react_steps
          /\ Len(react_result.steps) <= max_steps
          /\ (llm_calls # <<>> /\ FinishedBy(LastResponse)) =>
                /\ react_result.answer
                       = DictGet(LastResponse.json, "action_input", JString(<<>>))
                /\ Len(react_result.steps) = Len(llm_calls) - 1
          /\ (max_steps >= 1 /\ Len(react_steps) = Len(llm_calls)) =>
                /\ Len(react_result.steps) = max_steps
                /\ react_result.answer = react_steps[Len(react_steps)].observation

\* run_react_loop ends, by a return or by an exception
ReactTerminates == <>ReactDone

\* a step that is one pass of the loop body, and the LLM call made in it
ReactPass == react_pc = "loop" /\ Len(llm_calls') = Len(llm_calls) + 1

PassCall == llm_calls'[Len(llm_calls')]

ActionOf(response) == DictGet(response.json, "action", JString(Finish))

\* the response asks for a tool that is not in the tools map
NamesNoTool(response) ==
    /\ response.json.type = "object"
    /\ ActionOf(response) # JString(Finish)
    /\ ~(ActionOf(response).type = "string" /\ ActionOf(response).value \in ToolNames)

\* the response asks for a tool of the map, and the tool raises
ToolRaises(call) ==
    /\ call.response.json.type = "object"
    /\ ActionOf(call.response).type = "string"
    /\ ActionOf(call.response).value \in ToolNames
    /\ call.tool = "Exception"

IsPrefix(p, s) == Len(p) <= Len(s) /\ SubSeq(s, 1, Len(p)) = p

\* the pass appended one step with an observation that starts with prefix,
\* put the observation in the last message, and left the loop running
StepFedBack(prefix) ==
    /\ raised' = "" /\ react_pc' = "loop"
    /\ Len(react_steps') = Len(react_steps) + 1
    /\ SubSeq(react_steps', 1, Len(react_steps)) = react_steps
    /\ IsPrefix(prefix, react_steps'[Len(react_steps')].observation.value)
    /\ messages'[Len(messages')].content
           = ObservationText \o react_steps'[Len(react_steps')].observation.value
             \o ContinueText

\* C26: a tool failure never aborts the ReAct loop: an action that names no
\* entry of the tools map gives the step an 'Unknown tool' observation, a tool
\* that raises gives it 'Tool error: <message>'; in both cases the step is
\* appended, the observation is fed back and the loop goes on.  A response
\* that is not valid JSON ends the loop at once, with the stripped raw text
\* as answer and the steps made so far.
C26_ToolFailureNeverAborts ==
    [][ReactPass =>
          /\ NamesNoTool(PassCall.response) => StepFedBack(UnknownToolText)
          /\ ToolRaises(PassCall) => StepFedBack(ToolErrorText \o ToolFailure)
          /\ PassCall.response.json = JInvalid =>
                /\ raised' = "" /\ react_pc' = "done"
                /\ react_result' = AgentResult(ReactQuestion,
                                               JString(Strip(PassCall.response.content)),
                                               react_steps)]_vars

----------------------------------------------------------------------------
(* Claims about run_reflection_loop, checked under SpecReflect *)

ReflectReturned == refl_pc = "done" /\ raised = ""

\* the calls so far are worker, critic, worker, critic, ... of rounds 1, 2, ...;
\* each critic call reviews the answer in history for its round
WorkerThenCriticPerRound ==
    \A i \in 1..Len(refl_calls) :
        /\ refl_calls[i].round = (i + 1) \div 2
        /\ refl_calls[i].fn = IF i % 2 = 1 THEN "worker_answer" ELSE "critic_review"
        /\ (i % 2 = 0 /\ i \div 2 <= Len(history)) =>
               refl_calls[i].arg = history[i \div 2].answer

\* C24: run_reflection_loop runs the worker and then the critic once per round
\* and returns at the first round the critic approves, or after max_rounds
\* rounds when it never approves: rounds is the number of history entries,
\* the history round numbers are 1..rounds in order, only the last entry can
\* be approved, and final_answer is the worker's answer of the last round.
C24_ReflectionRounds ==
    /\ WorkerThenCriticPerRound
    /\ ReflectReturned =>
          /\ refl_result # NoResult
          /\ refl_result.history = history
          /\ refl_result.rounds = Len(history)
          /\ Len(refl_calls) = 2 * refl_result.rounds
          /\ \A i \in 1..Len(history) : history[i].round = i
          /\ \A i \in 1..Len(history) : history[i].approved => i = Len(history)
          /\ refl_result.rounds <= max_rounds
          /\ refl_result.rounds < max_rounds => history[Len(history)].approved
          /\ refl_result.rounds >= 1 =>
                /\ refl_result.final_answer = history[Len(history)].answer
                /\ refl_result.final_answer = refl_answer

\* the critic rejected round 1 and approved round 2 of at most 3
C24_Witness ==
    /\ ReflectReturned
    /\ max_rounds = 3
    /\ refl_result.rounds = 2
    /\ ~history[1].approved /\ history[2].approved
    /\ history[1].answer # history[2].answer

----------------------------------------------------------------------------
(* Claims about evaluate_single, checked under SpecEvalSingle *)

AnswerCalls == SelectSeq(fn_calls, LAMBDA c : c.fn = "answer_fn")

\* the last call of retrieval_fn returned a list
RetrievalReturned ==
    RetrievalCalls # <<>> /\ RetrievalCalls[Len(RetrievalCalls)].raised = ""

\* C25: in evaluate_single the answer function is called exactly once, and
\* only after retrieval has returned (never when retrieval raised); it gets
\* the texts of the first top_k retrieved results in retrieval order, never
\* more than top_k, and groundedness is computed over exactly those contexts.
C25_AnswerAfterRetrieval ==
    EvaluatedSingle =>
        /\ Len(AnswerCalls) = IF RetrievalReturned THEN 1 ELSE 0
        /\ AnswerCalls # <<>> =>
              /\ fn_calls[Len(fn_calls)] = AnswerCalls[1]
              /\ Len(AnswerCalls[1].contexts) = Min(eval_top_k, Len(ev_results))
              /\ \A i \in 1..Len(AnswerCalls[1].contexts) :
                    AnswerCalls[1].contexts[i] = ev_results[i].text
              /\ raised = "" =>
                    row.groundedness
                        = groundedness_score(answer_fn.returns, AnswerCalls[1].contexts)

\* two results were retrieved, after a retry, and top_k = 1 cut the contexts to one
C25_Witness ==
    /\ EvaluatedSingle /\ raised = ""
    /\ Len(RetrievalCalls) = 2
    /\ Len(ev_results) = 2 /\ eval_top_k = 1
    /\ Len(AnswerCalls) = 1 /\ Len(AnswerCalls[1].contexts) = 1

RowReturned == EvaluatedSingle /\ raised = "" /\ row # NoRow

\* C29: for every EvalRow that evaluate_single returns with top_k >= 1,
\* recall_at_k is 1.0 exactly when mrr >= 1/top_k, both lie in [0, 1], and a
\* row has recall_at_k 0.0 with mrr > 0 only when retrieval returned more
\* than top_k results.
C29_RecallAgreesWithMrr ==
    (RowReturned /\ eval_top_k >= 1) =>
        /\ InUnitInterval(row.recall_at_k) /\ InUnitInterval(row.mrr)
        /\ row.recall_at_k \in {Zero, One}
        /\ row.recall_at_k = One <=> row.mrr.num * eval_top_k >= row.mrr.den
        /\ (row.recall_at_k = Zero /\ row.mrr.num > 0) => Len(ev_results) > eval_top_k

\* the target is at rank 2 and top_k = 1: recall 0.0 with mrr 1/2
C29_Witness ==
    /\ RowReturned /\ eval_top_k = 1
    /\ row.recall_at_k = Zero
    /\ row.mrr = Rational(1, 2)
    /\ Len(ev_results) = 2

----------------------------------------------------------------------------
(* Claims about chunk id order, checked under SpecLongChunk *)

LongChunked == FixedChunked /\ fix_doc = Len(documents) + 1

\* C27: for every document, any chunk_size >= 1 and any number of chunks,
\* ordering the fixed-width chunks of the document by their chunk_id strings
\* gives their order of position in the text (so that the chunk texts joined
\* in chunk-id order are the document text): a chunk earlier in the text has
\* the smaller chunk_id.
C27_ChunkIdOrderIsPositionOrder ==
    LongChunked =>
        \A i, j \in 1..Len(chunks) :
            i < j => StrLess(chunks[i].chunk_id, chunks[j].chunk_id)

\* the chunks made step by step are the ones the whole loop gives (compared
\* on the short documents)
StepwiseAgrees ==
    (LongChunked /\ Len(documents[1].text) <= 10) =>
        chunks = fixed_chunk_documents(documents, chunk_size)

----------------------------------------------------------------------------
(* Claims about the hybrid retriever, checked under SpecHybrid *)

HybridRetrieved == called = "retrieve"

InBoth == IdsOf(dense_results) \cap IdsOf(keyword_results)

InOne == (IdsOf(dense_results) \cup IdsOf(keyword_results)) \ InBoth

\* C28: in the hybrid retriever (k = 60), when the dense list and the keyword
\* list hold at most 61 results each and neither repeats a chunk_id, every
\* chunk that is in both lists is ranked above every chunk that is in one
\* list only; the retriever returns at most top_k results, all tagged hybrid,
\* each with a chunk_id of the dense or the keyword results.
C28_BothListsOutrankOneList ==
    ( /\ HybridRetrieved
      /\ Len(dense_results) <= HybridLimit /\ Len(keyword_results) <= HybridLimit
      /\ NoDuplicates(ChunkIdsOf(dense_results))
      /\ NoDuplicates(ChunkIdsOf(keyword_results)) )
    => /\ \A i, j \in 1..Len(fused) :
              (fused[i].chunk_id \in InBoth /\ fused[j].chunk_id \in InOne) => i < j
       /\ results = Slice(fused, 0, top_k)
       /\ Len(results) <= top_k
       /\ \A i \in 1..Len(results) :
              /\ results[i].source = "hybrid"
              /\ results[i].chunk_id \in IdsOf(dense_results) \cup IdsOf(keyword_results)

\* a chunk at rank 61 of both lists is returned above the chunks that lead
\* one list only
C28_Witness ==
    /\ HybridRetrieved /\ top_k = HybridLimit
    /\ Len(dense_results) = HybridLimit /\ Len(keyword_results) = HybridLimit
    /\ dense_results[HybridLimit].chunk_id = keyword_results[HybridLimit].chunk_id
    /\ dense_results[1].chunk_id \in InOne /\ keyword_results[1].chunk_id \in InOne
    /\ results[1].chunk_id = dense_results[HybridLimit].chunk_id
    /\ Cardinality(InBoth) = 1

\* on the short lists of SpecRRF that repeat no chunk_id, the exact fusion ranks
\* as reciprocal_rank_fusion does
ExactFusionAgrees ==
    ( /\ called = "reciprocal_rank_fusion"
      /\ RepeatsNoId(dense_results) /\ RepeatsNoId(keyword_results) ) =>
        LET exact == ReciprocalRankFusionExact(dense_results, keyword_results, k)
        IN  /\ Len(exact) = Len(fused)
            /\ \A i \in 1..Len(fused) :
                  /\ exact[i].chunk_id = fused[i].chunk_id
                  /\ exact[i].text = fused[i].text
                  /\ exact[i].source = fused[i].source

====
